---- MODULE Spec2Model ----
(***************************************************************************)
(* Model of the install orchestrator (mc-core/src/install/orchestrator.rs),*)
(* the install streaming adapter (mc-services/src/install.rs), the state   *)
(* aggregator (mc-actors/src/state_manager.rs) and the producers           *)
(* LogWatcher (mc-actors/src/log_watcher.rs) and QueueMonitor              *)
(* (mc-actors/src/queue_monitor.rs) with their broadcast channels.         *)
(*                                                                         *)
(* Strings that the code inspects character by character (hostname, mail   *)
(* domain, admin email, admin password) are sequences of one-character     *)
(* strings; strings that are only compared or stored are TLA+ strings.     *)
(* Step indexes are 0-based as in the source.                              *)
(***************************************************************************)
EXTENDS Integers, Sequences, FiniteSets, TLC

VARIABLES
    config,      \* InstallOrchestrator.config
    steps,       \* InstallOrchestrator.steps : 0..NumSteps-1 -> StepState
    pc,          \* position of the orchestrator call in progress ("idle" if none)
    cur,         \* loop variable i of run_all / parameter index of run_step
    ret,         \* what the last run_all / run_step call returned
    calls,       \* number of run_all / run_step calls made so far
    invoked,     \* per step: how many times its handler was invoked
    sink,        \* notifications delivered to the caller's progress sink
    checked,     \* validate_config has accepted config on this orchestrator
    at_entry,       \* steps, invoked and the index argument when the last call began
    task,        \* the task spawned by start_install / resume_install
    chan,        \* items in the mpsc channel of the spawned task
    rx_alive,    \* the caller still holds the ReceiverStream
    stream,      \* items the caller has taken from the ReceiverStream
    agg,         \* StateManager.state (the AggregatedState)
    change_rx,   \* per live broadcast receiver: the broadcasts it has not read
    now,         \* the wall clock read by Utc::now()
    added,       \* number of add_log calls made so far
    lock,        \* holder of the write half of StateManager.state ("free" if none)
    wr,          \* per caller of a StateManager writer: where it is in the handler
    writes,      \* number of StateManager writer calls begun, lock by lock
    got,         \* what the last get_state call returned
    committed,   \* the state the last writer call left behind when it returned
    last_sent,   \* the last value handed to change_sender.send
    file_exists, \* the watched log file exists
    file,        \* the bytes of the log file, in the order they were written
    lw_handle,   \* LogWatcher.handle
    lw_tasks,    \* the tasks spawned by LogWatcher::start, in spawn order
    log_rx,      \* the receivers of the LogWatcher's broadcast channel
    published,   \* the entries handed to the LogWatcher's sender, in order
    tool,        \* what the postqueue command does when it is run
    last_check,  \* what the last QueueMonitor::check_once call returned
    qm_handle,   \* QueueMonitor.handle
    qm_tasks,    \* the tasks spawned by QueueMonitor::start, in spawn order
    queue_rx,    \* the receivers of the QueueMonitor's broadcast channel
    qm_stopped,  \* stop() has returned and start() was not called since
    log_line,    \* the line handed to LogLevel::from_line
    log_level,   \* what LogLevel::from_line returned for log_line
    tail_path,   \* what is at the path handed to LogWatcher::tail_lines
    tail_out,    \* what the last LogWatcher::tail_lines call returned
    issued,      \* the systemctl service-control commands run by the current call
    ctl_ret,     \* what the last ControlService::control_service call returned
    es,          \* step_enable_services: its loop index, enabled_count, result
    other,       \* the task spawned by a second start_install / resume_install
    install_state, \* what the last get_install_state call returned
    effects      \* what the step handler that ran last spawned and logged

orchVars == <<config, steps, pc, cur, ret, calls, invoked, sink, checked, at_entry>>
orchVars_but_pc == <<config, steps, cur, ret, calls, invoked, sink, checked, at_entry>>
svcVars == <<task, chan, rx_alive, stream>>
aggVars == <<agg, change_rx, now, added>>
lockVars == <<lock, wr, writes, got, committed, last_sent>>
watchVars == <<file_exists, file, lw_handle, lw_tasks, log_rx, published>>
queueVars == <<tool, last_check, qm_handle, qm_tasks, queue_rx, qm_stopped>>
producerVars == <<watchVars, queueVars>>
actorVars == <<lockVars, producerVars>>
callVars == <<log_line, log_level, tail_path, tail_out>>
ctlVars == <<issued, ctl_ret, es>>
installVars == <<other, install_state>>
effectVars == <<effects>>
vars == <<config, steps, pc, cur, ret, calls, invoked, sink, checked, at_entry,
          task, chan, rx_alive, stream, agg, change_rx, now, added,
          lock, wr, writes, got, committed, last_sent,
          file_exists, file, lw_handle, lw_tasks, log_rx, published,
          tool, last_check, qm_handle, qm_tasks, queue_rx, qm_stopped,
          log_line, log_level, tail_path, tail_out, issued, ctl_ret, es,
          other, install_state, effects>>

----------------------------------------------------------------------------
(* Bounds *)

\* run_all / run_step calls made on one orchestrator
MaxCalls == 2

\* add_log calls beyond the capacity of recent_logs
MaxExtraLogs == 3

\* latest wall-clock reading
MaxTime == 1

\* StateManager writer calls followed lock by lock
MaxWrites == 2

\* receivers subscribed to the StateManager's change channel
MaxSubscribers == 1

\* bytes written to the log file
MaxFileLen == 3

\* start() calls on the LogWatcher
MaxWatchStarts == 1

\* receivers of the LogWatcher's channel besides the one that new() returns
MaxLogSubscribers == 1

\* start() calls on the QueueMonitor
MaxStarts == 2

\* snapshots a receiver of the QueueMonitor's channel has missed
MaxMissed == 2

\* lines in the output of one postqueue run
MaxLines == 1

\* the buffer_size handed to LogWatcher::new / QueueMonitor::new
BufferSize == 1

\* words a classified log line is made of
MaxWords == 2

\* the n handed to LogWatcher::tail_lines
MaxTail == 2

\* tasks that panic or are cancelled inside a StateManager writer call
MaxFailures == 1

----------------------------------------------------------------------------
(* Characters and the input validators (mc-core/src/security/input.rs) *)

Lower ==
    {"a","b","c","d","e","f","g","h","i","j","k","l","m",
     "n","o","p","q","r","s","t","u","v","w","x","y","z"}

Upper ==
    {"A","B","C","D","E","F","G","H","I","J","K","L","M",
     "N","O","P","Q","R","S","T","U","V","W","X","Y","Z"}

Digit == {"0","1","2","3","4","5","6","7","8","9"}

IsAlpha(c) == c \in Lower \cup Upper

IsAlnum(c) == c \in Lower \cup Upper \cup Digit

\* the character class of the local part in EMAIL_RE (the grave accent is
\* written "grave": the lexer does not accept it inside a string)
EmailLocalChars ==
    Lower \cup Upper \cup Digit \cup
    {".","!","#","$","%","&","'","*","+","/","=","?","^","_","grave","{","|","}","~","-"}

\* s split at every occurrence of sep (always at least one part)
RECURSIVE SplitFrom(_, _, _, _)
SplitFrom(s, sep, k, part) ==
    IF k > Len(s) THEN <<part>>
    ELSE IF s[k] = sep THEN <<part>> \o SplitFrom(s, sep, k + 1, <<>>)
    ELSE SplitFrom(s, sep, k + 1, Append(part, s[k]))

Split(s, sep) == SplitFrom(s, sep, 1, <<>>)

\* [a-zA-Z0-9]([a-zA-Z0-9-]{0,61}[a-zA-Z0-9])?
LabelMatch(l) ==
    /\ Len(l) >= 1
    /\ Len(l) <= 63
    /\ IsAlnum(l[1])
    /\ IsAlnum(l[Len(l)])
    /\ \A k \in 1..Len(l) : IsAlnum(l[k]) \/ l[k] = "-"

\* [a-zA-Z]{2,}
TldMatch(t) == Len(t) >= 2 /\ \A k \in 1..Len(t) : IsAlpha(t[k])

\* DOMAIN_RE: ^label(\.label)*\.[a-zA-Z]{2,}$
DOMAIN_RE(d) ==
    LET parts == Split(d, ".") IN
    /\ Len(parts) >= 2
    /\ \A k \in 1..(Len(parts) - 1) : LabelMatch(parts[k])
    /\ TldMatch(parts[Len(parts)])

\* EMAIL_RE: ^local+@domain$ ; "@" is in neither character class
EMAIL_RE(e) ==
    LET parts == Split(e, "@") IN
    /\ Len(parts) = 2
    /\ Len(parts[1]) >= 1
    /\ \A k \in 1..Len(parts[1]) : parts[1][k] \in EmailLocalChars
    /\ DOMAIN_RE(parts[2])

\* HOSTNAME_RE: ^[a-zA-Z0-9]([a-zA-Z0-9.-]{0,253}[a-zA-Z0-9])?$
HOSTNAME_RE(h) ==
    /\ Len(h) >= 1
    /\ Len(h) <= 255
    /\ IsAlnum(h[1])
    /\ IsAlnum(h[Len(h)])
    /\ \A k \in 1..Len(h) : IsAlnum(h[k]) \/ h[k] \in {".", "-"}

validate_domain(domain) == Len(domain) <= 253 /\ DOMAIN_RE(domain)

validate_email(email) == Len(email) <= 254 /\ EMAIL_RE(email)

validate_hostname(hostname) == Len(hostname) <= 253 /\ HOSTNAME_RE(hostname)

validate_password(password) ==
    /\ Len(password) >= 12
    /\ \E k \in 1..Len(password) : password[k] \in Upper
    /\ \E k \in 1..Len(password) : password[k] \in Lower
    /\ \E k \in 1..Len(password) : password[k] \in Digit
    /\ \E k \in 1..Len(password) : ~IsAlnum(password[k])

----------------------------------------------------------------------------
(* Install configurations the model draws from *)

\* "mail.example.com"
HostGood == <<"m","a","i","l",".","e","x","a","m","p","l","e",".","c","o","m">>

\* "-invalid"
HostBad == <<"-","i","n","v","a","l","i","d">>

\* "example.com"
DomainGood == <<"e","x","a","m","p","l","e",".","c","o","m">>

\* "example"
DomainBad == <<"e","x","a","m","p","l","e">>

\* "admin@example.com"
EmailGood == <<"a","d","m","i","n","@","e","x","a","m","p","l","e",".","c","o","m">>

\* "not-an-email"
EmailBad == <<"n","o","t","-","a","n","-","e","m","a","i","l">>

\* "Str0ng!Pass#2024"
PasswordGood == <<"S","t","r","0","n","g","!","P","a","s","s","#","2","0","2","4">>

\* "test_password_123"
PasswordBad == <<"t","e","s","t","_","p","a","s","s","w","o","r","d","_","1","2","3">>

InstallConfig(h, d, e, p, v) ==
    [hostname |-> h, mail_domain |-> d, admin_email |-> e,
     admin_password |-> p, php_version |-> v]

GoodConfig == InstallConfig(HostGood, DomainGood, EmailGood, PasswordGood, "8.2")

Configs ==
    { GoodConfig,
      InstallConfig(HostBad, DomainGood, EmailGood, PasswordGood, "8.2"),
      InstallConfig(HostGood, DomainBad, EmailGood, PasswordGood, "8.2"),
      InstallConfig(HostGood, DomainGood, EmailBad, PasswordGood, "8.2"),
      InstallConfig(HostGood, DomainGood, EmailGood, PasswordBad, "8.2"),
      InstallConfig(HostGood, DomainGood, EmailGood, PasswordGood, "5.6") }

----------------------------------------------------------------------------
(* InstallOrchestrator (mc-core/src/install/orchestrator.rs) *)

Pending == [kind |-> "Pending", error |-> ""]

InProgress == [kind |-> "InProgress", error |-> ""]

Completed == [kind |-> "Completed", error |-> ""]

Failed(e) == [kind |-> "Failed", error |-> e]

\* Result<String, InstallError>; msg is the Ok message or e.to_string()
Ok(m) == [ok |-> TRUE, msg |-> m]

Err(e) == [ok |-> FALSE, msg |-> e]

step_names ==
    << <<"system_check", "System Check">>,
       <<"php_install", "PHP Installation">>,
       <<"core_packages", "Core Packages">>,
       <<"domain_config", "Domain Configuration">>,
       <<"database_setup", "Database Setup">>,
       <<"ssl_certificates", "SSL Certificates">>,
       <<"service_config", "Service Configuration">>,
       <<"dkim_setup", "DKIM Setup">>,
       <<"permissions", "Permissions">>,
       <<"enable_services", "Enable Services">>,
       <<"admin_account", "Admin Account">>,
       <<"summary", "Summary">> >>

\* self.steps.len()
NumSteps == Len(step_names)

StepIdx == 0..(NumSteps - 1)

\* InstallOrchestrator::new: every step Pending, progress 0, empty message
NewSteps ==
    [i \in StepIdx |->
        [name |-> step_names[i + 1][1], label |-> step_names[i + 1][2],
         status |-> Pending, progress_percent |-> 0, message |-> ""]]

\* mutant: the admin email is not validated
validate_config_SkipsEmail(cfg) ==
    IF ~validate_hostname(cfg.hostname)
    THEN Err("Step failed: validation - Invalid hostname")
    ELSE IF ~validate_domain(cfg.mail_domain)
    THEN Err("Step failed: validation - Invalid mail domain")
    ELSE IF ~validate_password(cfg.admin_password)
    THEN Err("Step failed: validation - Weak admin password")
    ELSE Ok("")

validate_config(cfg) ==
    IF ~validate_hostname(cfg.hostname)
    THEN Err("Step failed: validation - Invalid hostname")
    ELSE IF ~validate_domain(cfg.mail_domain)
    THEN Err("Step failed: validation - Invalid mail domain")
    ELSE IF ~validate_email(cfg.admin_email)
    THEN Err("Step failed: validation - Invalid admin email")
    ELSE IF ~validate_password(cfg.admin_password)
    THEN Err("Step failed: validation - Weak admin password")
    ELSE Ok("")

(* The step handlers. Each is the set of results the handler can return    *)
(* for the configuration: which one it returns depends on the host (disk,  *)
(* memory, package manager, spawned commands).                             *)

step_system_check(cfg) ==
    { Ok("System check passed"),
      Err("Command failed: df failed"),
      Err("Step failed: system_check - Insufficient disk space"),
      Err("Step failed: system_check - Insufficient RAM") }

step_php_install(cfg) ==
    IF cfg.php_version \notin {"7.4", "8.0", "8.2"}
    THEN { Err("Step failed: php_install - Unsupported PHP version") }
    ELSE { Ok("PHP installed successfully"),
           Err("Step failed: php_install - install failed") }

step_core_packages(cfg) ==
    { Ok("Core packages installed"),
      Err("Step failed: core_packages - Failed to install") }

\* how `hostnamectl set-hostname` can end: it exits with status 0, it exits
\* with another status, or output() cannot run the command at all
HostnamectlOutcomes == {"success", "nonzero", "spawn_error"}

\* step_domain_config once the command ended as outcome: the Err of output()
\* is returned with `?`, a non-zero exit status is logged only
step_domain_config_after(outcome) ==
    IF outcome = "spawn_error"
    THEN Err("Command failed: hostnamectl")
    ELSE Ok("Domain configured")

step_domain_config(cfg) ==
    { step_domain_config_after(outcome) : outcome \in HostnamectlOutcomes }

step_database_setup(cfg) ==
    { Ok("Database ceymail_db created and migrations applied"),
      Err("Step failed: database_setup - Database setup failed") }

step_ssl_certificates(cfg) ==
    { Ok("SSL certificate issued"),
      Err("Step failed: ssl_certificates - Certbot failed") }

step_service_config(cfg) ==
    { Ok("Service configuration files generated for Postfix, Dovecot, and OpenDKIM"),
      Err("Step failed: service_config - Failed to write") }

step_dkim_setup(cfg) ==
    { Ok("DKIM keys generated"),
      Err("Step failed: dkim_setup - DKIM key generation failed") }

step_permissions(cfg) ==
    { Ok("File permissions applied for all service directories"),
      Err("Command failed: chown") }

step_enable_services(cfg) ==
    { Ok("Enabled and started services"),
      Err("Command failed: systemctl") }

\* validate_email on the admin_email of each configuration
AdminEmailValid == [c \in Configs |-> validate_email(c.admin_email)]

step_admin_account(cfg) ==
    IF ~AdminEmailValid[cfg]
    THEN { Err("Step failed: admin_account - Invalid admin email") }
    ELSE { Ok("Admin account created"),
           Err("Step failed: admin_account - Failed to create admin account") }

step_summary(cfg) == { Ok("Installation complete!") }

\* the match on self.steps[i].name in run_all and run_step
Dispatch(name, cfg) ==
    CASE name = "system_check" -> step_system_check(cfg)
      [] name = "php_install" -> step_php_install(cfg)
      [] name = "core_packages" -> step_core_packages(cfg)
      [] name = "domain_config" -> step_domain_config(cfg)
      [] name = "database_setup" -> step_database_setup(cfg)
      [] name = "ssl_certificates" -> step_ssl_certificates(cfg)
      [] name = "service_config" -> step_service_config(cfg)
      [] name = "dkim_setup" -> step_dkim_setup(cfg)
      [] name = "permissions" -> step_permissions(cfg)
      [] name = "enable_services" -> step_enable_services(cfg)
      [] name = "admin_account" -> step_admin_account(cfg)
      [] name = "summary" -> step_summary(cfg)
      [] OTHER -> { Ok("Unknown step") }

\* mutant: the progress of the step is left as it was
MarkInProgress_KeepsProgress(st, i) == [st EXCEPT ![i].status = InProgress]

\* mutant: the progress of every step is reset
MarkInProgress_ResetsAll(st, i) ==
    [j \in DOMAIN st |->
        IF j = i
        THEN [st[j] EXCEPT !.status = InProgress, !.progress_percent = 0]
        ELSE [st[j] EXCEPT !.progress_percent = 0]]

\* mutant: every step up to i is marked
MarkInProgress_UpTo(st, i) ==
    [j \in DOMAIN st |->
        IF j <= i
        THEN [st[j] EXCEPT !.status = InProgress, !.progress_percent = 0]
        ELSE st[j]]

\* self.steps[i].status = InProgress; self.steps[i].progress_percent = 0
MarkInProgress(st, i) ==
    [st EXCEPT ![i].status = InProgress, ![i].progress_percent = 0]

\* mutant: the Ok arm does not set the status
MarkResult_KeepsStatus(st, i, r) ==
    IF r.ok
    THEN [st EXCEPT ![i].progress_percent = 100,
                    ![i].message = r.msg]
    ELSE [st EXCEPT ![i].status = Failed(r.msg),
                    ![i].message = r.msg]

\* the match on result that follows the handler in run_all and run_step
MarkResult(st, i, r) ==
    IF r.ok
    THEN [st EXCEPT ![i].status = Completed,
                    ![i].progress_percent = 100,
                    ![i].message = r.msg]
    ELSE [st EXCEPT ![i].status = Failed(r.msg),
                    ![i].message = r.msg]

\* mutant: the loop ends when the consumer has dropped the stream
RunAllContinues_StopsWhenDropped(r, i) == r.ok /\ i + 1 < NumSteps /\ rx_alive

\* mutant: the loop ends one step early
RunAllContinues_StopsBeforeLast(r, i) == r.ok /\ i + 2 < NumSteps

\* mutant: the Err arm does not return
RunAllContinues_IgnoresFailure(r, i) == i + 1 < NumSteps

\* run_all goes on to step i + 1 after step i returned r: the Err arm
\* returns, and the loop ends after the last step
RunAllContinues(r, i) == r.ok /\ i + 1 < NumSteps

(* What a step handler does besides returning: the processes it spawns     *)
(* and the log records it emits. A text is the sequence of its pieces: a    *)
(* literal of the source is one piece, a value of the configuration        *)
(* contributes its characters.                                              *)

NoEffects == [spawned |-> <<>>, logged |-> <<>>, secrets |-> {}]

\* CredentialStore::generate_db_password: the hex encoding of 16 random bytes
generate_db_password == <<"hex::encode(16 random bytes)">>

\* sha512_simple(password, params): "$6$", a random salt and the digest; the
\* digest is a value of its own for each password
sha512_simple(password) ==
    IF password = PasswordGood
    THEN <<"$6$", "salt", "$", "digest of Str0ng!Pass#2024">>
    ELSE IF password = PasswordBad
    THEN <<"$6$", "salt", "$", "digest of test_password_123">>
    ELSE <<"$6$", "salt", "$", "digest">>

\* mail::password::hash_password
hash_password(password) == <<"{SHA512-CRYPT}">> \o sha512_simple(password)

\* mutant: the statement is handed to the client with -e
mysql_AsArgument(sql) ==
    [program |-> "mysql", args |-> << <<"-u">>, <<"root">>, <<"-e">>, sql >>,
     stdin |-> <<>>]

\* Command::new("mysql").args(["-u", "root"]) with piped stdin, on which the
\* statement is written
mysql(sql) ==
    [program |-> "mysql", args |-> << <<"-u">>, <<"root">> >>, stdin |-> sql]

\* what step_database_setup spawns and logs when it returns r
database_setup_effects(cfg, r) ==
    LET db_password == generate_db_password
        sql == <<"CREATE DATABASE IF NOT EXISTS ceymail_db; ",
                 "CREATE USER IF NOT EXISTS 'ceymail'@'localhost' IDENTIFIED BY '">>
               \o db_password
               \o <<"'; GRANT ALL PRIVILEGES ON ceymail_db.* TO 'ceymail'@'localhost'; ",
                    "FLUSH PRIVILEGES;">>
    IN  [spawned |-> <<mysql(sql)>>,
         logged |-> IF r.ok
                    THEN << <<"Setting up database">>,
                            <<"Database password generated and stored (not logged)">> >>
                    ELSE << <<"Setting up database">> >>,
         secrets |-> {db_password}]

\* what step_admin_account spawns and logs when it returns r
admin_account_effects(cfg, r) ==
    LET info == <<"Creating admin account", "email=">> \o cfg.admin_email
        password_hash == hash_password(cfg.admin_password)
        sql == <<"INSERT INTO ceymail_db.dashboard_users ",
                 "(username, email, password_hash, role, created_at) ",
                 "VALUES ('admin', '">>
               \o cfg.admin_email \o <<"', '">> \o password_hash
               \o <<"', 'admin', NOW()) ON DUPLICATE KEY UPDATE ",
                    "email = VALUES(email), password_hash = VALUES(password_hash);">>
    IN  IF r = Err("Step failed: admin_account - Invalid admin email")
        THEN [spawned |-> <<>>, logged |-> <<info>>, secrets |-> {}]
        ELSE [spawned |-> <<mysql(sql)>>, logged |-> <<info>>,
              secrets |-> {cfg.admin_password, password_hash}]

\* the handler of the step called name returned r: what it spawned and logged
\* (followed for the two handlers that generate or read a secret)
HandlerEffects(name, cfg, r) ==
    CASE name = "database_setup" -> database_setup_effects(cfg, r)
      [] name = "admin_account" -> admin_account_effects(cfg, r)
      [] OTHER -> NoEffects

\* error!(step = %self.steps[i].name, error = %e, "Install step failed")
StepFailedRecord(name, e) == <<"Install step failed", "step=", name, "error=", e>>

\* the same within run_all, which logs the error of a failed step
RunAllEffects(name, cfg, r) ==
    LET h == HandlerEffects(name, cfg, r) IN
    IF r.ok THEN h
    ELSE [h EXCEPT !.logged = Append(@, StepFailedRecord(name, r.msg))]

NoStep ==
    [name |-> "", label |-> "", status |-> Pending,
     progress_percent |-> 0, message |-> ""]

\* the value a call returned: Ok(()) / Ok(&StepState) / Err(e)
Returned(call, r, stepState) ==
    [call |-> call, ok |-> r.ok, error |-> IF r.ok THEN "" ELSE r.msg,
     step |-> stepState]

NoReturn == [call |-> "none", ok |-> TRUE, error |-> "", step |-> NoStep]

----------------------------------------------------------------------------
(* Install streaming adapter (mc-services/src/install.rs) *)

\* mutant: a channel that holds the items of one step
ChannelCapacity_OneStep == Len(<<"in_progress", "completed">>)

\* capacity of mpsc::channel(64)
ChannelCapacity == 64

NoTask == [kind |-> "none", completed_steps |-> <<>>, finished |-> FALSE]

\* where a finished run_all / run_step call returns to
AfterRunAll == IF task.kind = "start" THEN "si_result" ELSE "idle"

AfterRunStep == IF task.kind = "resume" THEN "re_result" ELSE "idle"

orchestrator_step_index(name) ==
    CASE name = "system_check" -> 0
      [] name = "php_install" -> 1
      [] name = "core_packages" -> 2
      [] name = "domain_config" -> 3
      [] name = "database_setup" -> 4
      [] name = "ssl_certificates" -> 5
      [] name = "service_config" -> 6
      [] name = "dkim_setup" -> 7
      [] name = "permissions" -> 8
      [] name = "enable_services" -> 9
      [] name = "admin_account" -> 10
      [] name = "summary" -> 11
      [] OTHER -> 0

\* InstallProgress::from_step_state; step_name and status are the pieces
\* that format! joins
from_step_state(state, index, total) ==
    [step_name |-> <<state.name>>,
     step_label |-> state.label,
     status |-> CASE state.status.kind = "Pending" -> <<"pending">>
                  [] state.status.kind = "InProgress" -> <<"in_progress">>
                  [] state.status.kind = "Completed" -> <<"completed">>
                  [] OTHER -> <<"failed: ", state.status.error>>,
     progress_percent |-> state.progress_percent,
     message |-> state.message,
     step_index |-> index,
     total_steps |-> total]

\* tx.try_send(item): dropped when the receiver is gone or the channel full
try_send(ch, item) ==
    IF rx_alive /\ Len(ch) < ChannelCapacity THEN Append(ch, item) ELSE ch

\* the closure start_install passes to run_all as on_progress
ProgressClosure(ch, stepState) ==
    try_send(ch, from_step_state(stepState,
                                 orchestrator_step_index(stepState.name),
                                 NumSteps))

\* on_progress(&self.steps[i]) in run_all: the caller's callback runs
on_progress(stepState) ==
    /\ sink' = Append(sink, stepState)
    /\ chan' = IF task.kind = "start" THEN ProgressClosure(chan, stepState) ELSE chan

----------------------------------------------------------------------------
(* StateManager (mc-actors/src/state_manager.rs) *)

\* the cap on recent_logs in add_log
MaxRecentLogs == 1000

\* broadcast::channel(16)
BroadcastCapacity == 16

None == <<>>

\* concurrent callers of the StateManager writers
Writers == {"w1", "w2"}

\* a caller that is in no writer call
Idle == [pc |-> "idle", op |-> "none", arg |-> <<>>, sends |-> 0]

Some(v) == <<v>>

\* AggregatedState::default()
DefaultState(t) ==
    [services |-> <<>>, latest_stats |-> None, latest_queue |-> None,
     recent_logs |-> <<>>, last_updated |-> t]

\* snapshot values and service lists the producers hand in
Snapshots == {1, 2}

ServiceLists == { <<"postfix">>, <<"postfix", "dovecot">> }

\* mutant: the excess is cut off the end
Drain_FromEnd(logs, excess) == SubSeq(logs, 1, Len(logs) - excess)

\* recent_logs.drain(..excess): drop the first excess entries
Drain(logs, excess) == SubSeq(logs, excess + 1, Len(logs))

\* push, then trim to the last MaxRecentLogs entries
PushLog(logs, entry) ==
    LET pushed == Append(logs, entry) IN
    IF Len(pushed) > MaxRecentLogs
    THEN Drain(pushed, Len(pushed) - MaxRecentLogs)
    ELSE pushed

\* change_sender.send(value): every live receiver gets the value; a receiver
\* that lags by more than the capacity loses its oldest unread value; with
\* no receiver the value is dropped and the error ignored
BroadcastSend(rx, value) ==
    [r \in DOMAIN rx |->
        LET q == Append(rx[r], value) IN
        IF Len(q) > BroadcastCapacity THEN Tail(q) ELSE q]

----------------------------------------------------------------------------
(* tokio broadcast channel, as the producers use it *)

Min(a, b) == IF a <= b THEN a ELSE b

\* the last k elements of seq
Suffix(seq, k) == SubSeq(seq, Len(seq) - k + 1, Len(seq))

\* a receiver: the values it has not read yet (at most the capacity), the
\* number of values it missed since its last recv, and for the record the
\* number of values published before it subscribed, what it has received
\* and how many values it has missed in all
NewReceiver(at) ==
    [live |-> TRUE, at |-> at, unread |-> <<>>, missed |-> 0,
     taken |-> <<>>, lost |-> 0]

\* mutant: a full receiver keeps its old values and misses the new one
send_DropNewest(rx, value, capacity) ==
    [r \in DOMAIN rx |->
        IF ~rx[r].live THEN rx[r]
        ELSE IF Len(rx[r].unread) >= capacity
             THEN [rx[r] EXCEPT !.missed = @ + 1, !.lost = @ + 1]
             ELSE [rx[r] EXCEPT !.unread = Append(@, value)]]

\* let _ = sender.send(value): every live receiver gets the value; one that
\* already holds capacity unread values loses the oldest; with no live
\* receiver the value is dropped and the Err is ignored
send(rx, value, capacity) ==
    [r \in DOMAIN rx |->
        IF ~rx[r].live THEN rx[r]
        ELSE LET q == Append(rx[r].unread, value) IN
             IF Len(q) > capacity
             THEN [rx[r] EXCEPT !.unread = Tail(q), !.missed = @ + 1, !.lost = @ + 1]
             ELSE [rx[r] EXCEPT !.unread = q]]

\* mutant: only the first receiver gets the values
send_all_FirstOnly(rx, values, capacity) ==
    [r \in DOMAIN rx |->
        IF r = 1 /\ rx[r].live
        THEN [rx[r] EXCEPT !.unread = Suffix(@ \o values, Min(capacity, Len(@ \o values)))]
        ELSE rx[r]]

\* the values sent one after the other
RECURSIVE send_all(_, _, _)
send_all(rx, values, capacity) ==
    IF values = <<>> THEN rx
    ELSE send_all(send(rx, Head(values), capacity), Tail(values), capacity)

\* receiver.recv() when it does not have to wait: Err(Lagged(missed)) once
\* after values were missed, else the oldest unread value
recv(rcv) ==
    IF rcv.missed > 0
    THEN [rcv EXCEPT !.missed = 0]
    ELSE [rcv EXCEPT !.unread = Tail(@), !.taken = Append(@, Head(rcv.unread))]

\* a task just spawned by start: positioned before the existence poll, with
\* no read offset yet; for the record: whether the file was missing when it
\* was spawned, the length of the file when it opened it, whether a
\* notification error occurred, and the entries it has sent
NewWatchTask ==
    [pc |-> "poll", offset |-> 0, events |-> FALSE, aborted |-> FALSE,
     missing |-> FALSE, opened_at |-> 0, errored |-> FALSE, out |-> <<>>]

\* a task just spawned by QueueMonitor::start, not polled yet
NewQueueTask == [pc |-> "spawned", aborted |-> FALSE, held |-> None]

\* postqueue cannot be run at all
Unavailable == [j |-> "err", jlines |-> <<>>, p |-> "err", plines |-> <<>>]

\* the words log lines are made of: the keywords of from_line in several
\* cases, two pieces that make a keyword when joined, and neutral text
LevelWords ==
    {<<"e", "r", "r", "o", "r">>, <<"F", "A", "T", "A", "L">>,
     <<"P", "a", "n", "i", "c">>, <<"w", "a", "r", "n">>,
     <<"R", "E", "J", "E", "C", "T">>, <<"D", "e", "B", "u", "g">>,
     <<"W", "a", "r">>, <<"N">>, <<" ">>, <<"m", "a", "i", "l">>}

\* the concatenation of the sequences of ws
RECURSIVE Concat(_)
Concat(ws) == IF ws = <<>> THEN <<>> ELSE Head(ws) \o Concat(Tail(ws))

\* the lines of at most MaxWords words
Lines == {Concat(ws) : ws \in UNION {[1..k -> LevelWords] : k \in 0..MaxWords}}

\* step_enable_services is not running and has not returned
NotEnabling == [i |-> 0, enabled_count |-> 0, ret |-> None]

\* no second install task was spawned
NoOther == [kind |-> "none", cur |-> 0, state |-> "none"]

\* nothing exists at the path
Missing == [kind |-> "missing", bytes |-> <<>>]

\* the bytes of a file handed to tail_lines: a letter, the newline, a byte
\* that is not valid UTF-8
TailChars == {"a", "nl", "bad"}

\* what can be at the path: nothing, a file that cannot be opened, a file
TailPaths ==
    {Missing, [kind |-> "unreadable", bytes |-> <<>>]}
        \cup {[kind |-> "file", bytes |-> b] :
                 b \in UNION {[1..k -> TailChars] : k \in 0..MaxFileLen}}

----------------------------------------------------------------------------
(* Initial state *)

\* the orchestrator, the install service and the aggregator
InitBase ==
    /\ steps = NewSteps
    /\ pc = "idle"
    /\ cur = 0
    /\ ret = NoReturn
    /\ calls = 0
    /\ invoked = [i \in StepIdx |-> 0]
    /\ sink = <<>>
    /\ checked = FALSE
    /\ at_entry = [steps |-> NewSteps, invoked |-> [i \in StepIdx |-> 0], index |-> 0]
    /\ task = NoTask
    /\ chan = <<>>
    /\ rx_alive = TRUE
    /\ stream = <<>>
    /\ now = 0
    /\ agg = DefaultState(0)
    /\ change_rx = <<>>
    /\ added = 0
    /\ lock = "free"
    /\ wr = [w \in Writers |-> Idle]
    /\ writes = 0
    /\ got = None
    /\ committed = DefaultState(0)
    /\ last_sent = None
    /\ other = NoOther
    /\ install_state = None
    /\ effects = NoEffects

\* no call of the associated functions of LogWatcher was made
InitCalls ==
    /\ log_line = <<>>
    /\ log_level = None
    /\ tail_path = Missing
    /\ tail_out = None

\* no service was controlled yet
InitControl ==
    /\ issued = <<>>
    /\ ctl_ret = None
    /\ es = NotEnabling

\* everything but the configuration and the producers
InitRest == InitBase /\ InitCalls /\ InitControl

\* LogWatcher::new, for a log file that does not exist yet
InitWatcher ==
    /\ file_exists = FALSE
    /\ file = <<>>
    /\ lw_handle = None
    /\ lw_tasks = <<>>
    /\ log_rx = <<NewReceiver(0)>>
    /\ published = <<>>

\* QueueMonitor::new, on a host without postqueue
InitQueue ==
    /\ tool = Unavailable
    /\ last_check = None
    /\ qm_handle = None
    /\ qm_tasks = <<>>
    /\ queue_rx = <<NewReceiver(0)>>
    /\ qm_stopped = FALSE

\* a QueueMonitor whose task is in its loop, the receiver of new() dropped
InitMonitoring ==
    /\ tool = Unavailable
    /\ last_check = None
    /\ qm_handle = Some(1)
    /\ qm_tasks = <<[NewQueueTask EXCEPT !.pc = "collect"]>>
    /\ queue_rx = <<[NewReceiver(0) EXCEPT !.live = FALSE]>>
    /\ qm_stopped = FALSE

\* everything but the configuration
InitState == InitRest /\ InitWatcher /\ InitQueue

\* a LogWatcher whose task has opened the empty log file and waits for events
InitWatching ==
    /\ file_exists = TRUE
    /\ file = <<>>
    /\ lw_handle = Some(1)
    /\ lw_tasks = <<[NewWatchTask EXCEPT !.pc = "wait"]>>
    /\ log_rx = <<NewReceiver(0)>>
    /\ published = <<>>

\* an orchestrator constructed with any of the configurations
Init == config \in Configs /\ InitState

\* the aggregator right after StateManager::new(); no install is involved
InitAgg == config = GoodConfig /\ InitState

\* the aggregator untouched, the LogWatcher watching
InitLogChannel == config = GoodConfig /\ InitRest /\ InitWatching /\ InitQueue

\* the QueueMonitor in its loop, everything else untouched
InitCollect == config = GoodConfig /\ InitRest /\ InitWatcher /\ InitMonitoring

\* a path about to be read by tail_lines
InitTail ==
    /\ config = GoodConfig
    /\ InitBase /\ InitControl /\ InitWatcher /\ InitQueue
    /\ log_line = <<>>
    /\ log_level = None
    /\ tail_path \in TailPaths
    /\ tail_out = None

\* a line about to be classified
InitLevel ==
    /\ config = GoodConfig
    /\ InitBase /\ InitControl /\ InitWatcher /\ InitQueue
    /\ log_line \in Lines
    /\ log_level = None
    /\ tail_path = Missing
    /\ tail_out = None

----------------------------------------------------------------------------
(* InstallOrchestrator::run_all *)

\* run_all up to the loop: validate_config, then the first iteration starts
RunAllEnter ==
    LET v == validate_config(config) IN
    /\ calls' = calls + 1
    /\ sink' = <<>>
    /\ at_entry' = [steps |-> steps, invoked |-> invoked, index |-> 0]
    /\ IF v.ok
       THEN /\ checked' = TRUE
            /\ cur' = 0
            /\ ret' = NoReturn
            /\ pc' = "ra_begin"
       ELSE /\ checked' = checked
            /\ cur' = cur
            /\ ret' = Returned("run_all", v, NoStep)
            /\ pc' = AfterRunAll
    /\ UNCHANGED <<config, steps, invoked>>

\* a caller calls run_all on the orchestrator
RunAllCall ==
    /\ pc = "idle"
    /\ task.kind = "none"
    /\ calls < MaxCalls
    /\ RunAllEnter
    /\ UNCHANGED <<svcVars, aggVars, actorVars, callVars, ctlVars, installVars, effectVars>>

\* loop body, first half: mark step i InProgress and report it
RunAllBegin ==
    /\ pc = "ra_begin"
    /\ steps' = MarkInProgress(steps, cur)
    /\ on_progress(steps'[cur])
    /\ pc' = "ra_exec"
    /\ UNCHANGED <<config, cur, ret, calls, invoked, checked, at_entry>>
    /\ UNCHANGED <<task, rx_alive, stream, aggVars, actorVars, callVars, ctlVars, installVars, effectVars>>

\* loop body, second half: run the handler, record and report the result,
\* then go on to the next step, or return
RunAllExec ==
    /\ pc = "ra_exec"
    /\ \E r \in Dispatch(steps[cur].name, config) :
        /\ invoked' = [invoked EXCEPT ![cur] = @ + 1]
        /\ steps' = MarkResult(steps, cur, r)
        /\ effects' = RunAllEffects(steps[cur].name, config, r)
        /\ on_progress(steps'[cur])
        /\ IF RunAllContinues(r, cur)
           THEN /\ cur' = cur + 1
                /\ pc' = "ra_begin"
                /\ ret' = ret
           ELSE /\ cur' = cur
                /\ pc' = AfterRunAll
                /\ ret' = Returned("run_all", r, NoStep)
    /\ UNCHANGED <<config, calls, checked, at_entry>>
    /\ UNCHANGED <<task, rx_alive, stream, aggVars, actorVars, callVars, ctlVars, installVars>>

----------------------------------------------------------------------------
(* InstallOrchestrator::run_step *)

\* run_step up to the handler: bounds check, then mark the step InProgress
RunStepEnter(index) ==
    /\ calls' = calls + 1
    /\ at_entry' = [steps |-> steps, invoked |-> invoked, index |-> index]
    /\ IF index >= NumSteps
       THEN /\ ret' = Returned("run_step",
                               Err("Step failed: index - Step index out of bounds"),
                               NoStep)
            /\ pc' = AfterRunStep
            /\ UNCHANGED <<steps, cur>>
       ELSE /\ steps' = MarkInProgress(steps, index)
            /\ cur' = index
            /\ ret' = NoReturn
            /\ pc' = "rs_exec"
    /\ UNCHANGED <<config, invoked, sink, checked>>

\* a caller calls run_step(index) on the orchestrator
RunStepCall ==
    /\ pc = "idle"
    /\ task.kind = "none"
    /\ calls < MaxCalls
    /\ \E index \in 0..NumSteps : RunStepEnter(index)
    /\ UNCHANGED <<svcVars, aggVars, actorVars, callVars, ctlVars, installVars, effectVars>>

\* run_step from the handler on: run it, record the result, return
RunStepExec ==
    /\ pc = "rs_exec"
    /\ \E r \in Dispatch(steps[cur].name, config) :
        /\ invoked' = [invoked EXCEPT ![cur] = @ + 1]
        /\ steps' = MarkResult(steps, cur, r)
        /\ effects' = HandlerEffects(steps[cur].name, config, r)
        /\ ret' = Returned("run_step", r, IF r.ok THEN steps'[cur] ELSE NoStep)
    /\ pc' = AfterRunStep
    /\ UNCHANGED <<config, cur, calls, sink, checked, at_entry, svcVars, aggVars, actorVars, callVars, ctlVars, installVars>>

----------------------------------------------------------------------------
(* InstallService::start_install / resume_install *)

\* completed_steps arguments the model draws from
StepName(i) == step_names[i + 1][1]

CompletedChoices ==
    { <<>>,
      <<"system_check">>,
      <<"system_check", "php_install">>,
      <<"php_install">>,
      <<"core_packages", "system_check">>,
      [k \in 1..(NumSteps - 1) |-> StepName(k - 1)],
      [k \in 1..NumSteps |-> StepName(k - 1)],
      [k \in 1..(NumSteps + 1) |-> "system_check"] }

\* the item sent when run_all returned an error
StartErrorItem(e) ==
    [step_name |-> <<"error">>, step_label |-> "Error",
     status |-> <<"failed: ", e>>, progress_percent |-> 0, message |-> e,
     step_index |-> 0, total_steps |-> NumSteps]

\* the item sent when run_step(i) returned an error
ResumeErrorItem(i, e) ==
    [step_name |-> <<"step_", i>>, step_label |-> "Error",
     status |-> <<"failed: ", e>>, progress_percent |-> 0, message |-> e,
     step_index |-> i, total_steps |-> NumSteps]

\* start_install: create the channel, spawn the task, return the stream
StartInstall ==
    /\ pc = "idle"
    /\ task.kind = "none"
    /\ task' = [kind |-> "start", completed_steps |-> <<>>, finished |-> FALSE]
    /\ pc' = "si_spawned"
    /\ UNCHANGED <<orchVars_but_pc, chan, rx_alive, stream, aggVars, actorVars, callVars, ctlVars, installVars, effectVars>>

\* the spawned task builds the orchestrator and calls run_all
StartRunAll ==
    /\ pc = "si_spawned"
    /\ RunAllEnter
    /\ UNCHANGED <<svcVars, aggVars, actorVars, callVars, ctlVars, installVars, effectVars>>

\* mutant: the task does not end after run_all returned
StartResult_KeepsSender ==
    /\ pc = "si_result"
    /\ chan' = IF ret.ok THEN chan ELSE try_send(chan, StartErrorItem(ret.error))
    /\ task' = task
    /\ pc' = "done"
    /\ UNCHANGED <<orchVars_but_pc, rx_alive, stream, aggVars, actorVars, callVars, ctlVars, installVars, effectVars>>

\* after run_all returned: send the error item on Err, then the task ends
StartResult ==
    /\ pc = "si_result"
    /\ chan' = IF ret.ok THEN chan ELSE try_send(chan, StartErrorItem(ret.error))
    /\ task' = [task EXCEPT !.finished = TRUE]
    /\ pc' = "done"
    /\ UNCHANGED <<orchVars_but_pc, rx_alive, stream, aggVars, actorVars, callVars, ctlVars, installVars, effectVars>>

\* resume_install: create the channel, spawn the task, return the stream;
\* the task builds the orchestrator and computes start_from
ResumeInstall ==
    /\ pc = "idle"
    /\ task.kind = "none"
    /\ \E completed_steps \in CompletedChoices :
        /\ task' = [kind |-> "resume", completed_steps |-> completed_steps,
                    finished |-> FALSE]
        /\ cur' = Len(completed_steps)
    /\ pc' = "re_loop"
    /\ UNCHANGED <<config, steps, ret, calls, invoked, sink, checked, at_entry>>
    /\ UNCHANGED <<chan, rx_alive, stream, aggVars, actorVars, callVars, ctlVars, installVars, effectVars>>

\* head of the loop `for i in start_from..total`: call run_step(i), or end
ResumeLoop ==
    /\ pc = "re_loop"
    /\ IF cur < NumSteps
       THEN /\ RunStepEnter(cur)
            /\ task' = task
       ELSE /\ task' = [task EXCEPT !.finished = TRUE]
            /\ pc' = "done"
            /\ UNCHANGED <<orchVars_but_pc>>
    /\ UNCHANGED <<chan, rx_alive, stream, aggVars, actorVars, callVars, ctlVars, installVars, effectVars>>

\* mutant: the Err arm does not break out of the loop
ResumeResult_NoBreak ==
    /\ pc = "re_result"
    /\ chan' = IF ret.ok
               THEN try_send(chan, from_step_state(ret.step, cur, NumSteps))
               ELSE try_send(chan, ResumeErrorItem(cur, ret.error))
    /\ cur' = cur + 1
    /\ pc' = "re_loop"
    /\ task' = task
    /\ UNCHANGED <<config, steps, ret, calls, invoked, sink, checked, at_entry>>
    /\ UNCHANGED <<rx_alive, stream, aggVars, actorVars, callVars, ctlVars, installVars, effectVars>>

\* the match on what run_step(i) returned
ResumeResult ==
    /\ pc = "re_result"
    /\ IF ret.ok
       THEN /\ chan' = try_send(chan, from_step_state(ret.step, cur, NumSteps))
            /\ cur' = cur + 1
            /\ pc' = "re_loop"
            /\ task' = task
       ELSE /\ chan' = try_send(chan, ResumeErrorItem(cur, ret.error))
            /\ cur' = cur
            /\ pc' = "done"
            /\ task' = [task EXCEPT !.finished = TRUE]
    /\ UNCHANGED <<config, steps, ret, calls, invoked, sink, checked, at_entry>>
    /\ UNCHANGED <<rx_alive, stream, aggVars, actorVars, callVars, ctlVars, installVars, effectVars>>

\* the caller polls the stream and gets the next item
StreamNext ==
    /\ rx_alive
    /\ chan # <<>>
    /\ stream' = Append(stream, Head(chan))
    /\ chan' = Tail(chan)
    /\ UNCHANGED <<orchVars, task, rx_alive, aggVars, actorVars, callVars, ctlVars, installVars, effectVars>>

\* mutant: dropping the stream cancels the spawned task where it is
StreamDrop_AbortsTask ==
    /\ rx_alive
    /\ task.kind # "none"
    /\ rx_alive' = FALSE
    /\ chan' = <<>>
    /\ task' = [task EXCEPT !.finished = TRUE]
    /\ pc' = "done"
    /\ UNCHANGED <<orchVars_but_pc, stream, aggVars, actorVars, callVars, ctlVars, installVars, effectVars>>

\* the caller drops the stream: the receiver closes, unread items are lost
StreamDrop ==
    /\ rx_alive
    /\ task.kind # "none"
    /\ rx_alive' = FALSE
    /\ chan' = <<>>
    /\ UNCHANGED <<orchVars, task, stream, aggVars, actorVars, callVars, ctlVars, installVars, effectVars>>

\* start_install is called again while a task spawned by an earlier call
\* exists: the service keeps no record of that task, a new task is spawned
\* with an orchestrator of its own and calls run_all, which validates the
\* configuration and enters its loop
SecondStartInstall ==
    /\ task.kind # "none"
    /\ other.kind = "none"
    /\ other' = IF validate_config(config).ok
                THEN [kind |-> "start", cur |-> 0, state |-> "running"]
                ELSE [kind |-> "start", cur |-> 0, state |-> "done"]
    /\ UNCHANGED install_state
    /\ UNCHANGED <<orchVars, svcVars, aggVars, actorVars, callVars, ctlVars, effectVars>>

\* resume_install is called again: likewise, and the new task enters its
\* loop at start_from
SecondResumeInstall ==
    /\ task.kind # "none"
    /\ other.kind = "none"
    /\ \E completed_steps \in CompletedChoices :
          other' = IF Len(completed_steps) < NumSteps
                   THEN [kind |-> "resume", cur |-> Len(completed_steps),
                         state |-> "running"]
                   ELSE [kind |-> "resume", cur |-> Len(completed_steps),
                         state |-> "done"]
    /\ UNCHANGED install_state
    /\ UNCHANGED <<orchVars, svcVars, aggVars, actorVars, callVars, ctlVars, effectVars>>

\* the second task runs the handler of its current step and goes on to the
\* next step, or ends at the last step or at a failed one
OtherExec ==
    /\ other.state = "running"
    /\ \E r \in Dispatch(StepName(other.cur), config) :
          other' = IF r.ok /\ other.cur + 1 < NumSteps
                   THEN [other EXCEPT !.cur = @ + 1]
                   ELSE [other EXCEPT !.state = "done"]
    /\ UNCHANGED install_state
    /\ UNCHANGED <<orchVars, svcVars, aggVars, actorVars, callVars, ctlVars, effectVars>>

\* InstallService::get_install_state: a new orchestrator is built from the
\* configuration and its steps are projected
get_install_state ==
    /\ LET orchestrator == NewSteps IN
       install_state' = Some([k \in 1..NumSteps |->
                                from_step_state(orchestrator[k - 1], k - 1, NumSteps)])
    /\ UNCHANGED other
    /\ UNCHANGED <<orchVars, svcVars, aggVars, actorVars, callVars, ctlVars, effectVars>>

----------------------------------------------------------------------------
(* StateManager operations; each runs under the write lock *)

update_stats ==
    /\ \E snapshot \in Snapshots :
        agg' = [agg EXCEPT !.latest_stats = Some(snapshot),
                           !.last_updated = now]
    /\ change_rx' = BroadcastSend(change_rx, agg')
    /\ UNCHANGED <<now, added, orchVars, svcVars, actorVars, callVars, ctlVars, installVars, effectVars>>

update_queue ==
    /\ \E snapshot \in Snapshots :
        agg' = [agg EXCEPT !.latest_queue = Some(snapshot),
                           !.last_updated = now]
    /\ change_rx' = BroadcastSend(change_rx, agg')
    /\ UNCHANGED <<now, added, orchVars, svcVars, actorVars, callVars, ctlVars, installVars, effectVars>>

update_services ==
    /\ \E services \in ServiceLists :
        agg' = [agg EXCEPT !.services = services,
                           !.last_updated = now]
    /\ change_rx' = BroadcastSend(change_rx, agg')
    /\ UNCHANGED <<now, added, orchVars, svcVars, actorVars, callVars, ctlVars, installVars, effectVars>>

\* the entry of the k-th add_log call is identified by k
add_log ==
    /\ added < MaxRecentLogs + MaxExtraLogs
    /\ added' = added + 1
    /\ agg' = [agg EXCEPT !.recent_logs = PushLog(@, added + 1),
                          !.last_updated = now]
    /\ UNCHANGED <<change_rx, now, orchVars, svcVars, actorVars, callVars, ctlVars, installVars, effectVars>>

\* the wall clock advances
Tick ==
    /\ now < MaxTime
    /\ now' = now + 1
    /\ UNCHANGED <<agg, change_rx, added, orchVars, svcVars, actorVars, callVars, ctlVars, installVars, effectVars>>

----------------------------------------------------------------------------
(* StateManager, lock by lock: the statements of each writer call are      *)
(* separate steps, so that what the RwLock excludes is checked, not assumed *)

\* mutant: the write lock is granted while another writer holds it
WriteGranted_Always == TRUE

\* self.state.write().await: granted when nobody holds the lock
WriteGranted == lock = "free"

\* mutant: a reader is let in while a writer holds the lock
ReadGranted_Always == TRUE

\* self.state.read().await: granted when no writer holds the lock
ReadGranted == lock = "free"

\* the calls a caller may make; the k-th log entry is identified by k
WriteCalls ==
    [op : {"update_stats", "update_queue"}, arg : {Some(v) : v \in Snapshots}]
        \cup [op : {"update_services"}, arg : ServiceLists]
        \cup {[op |-> "add_log", arg |-> <<added + 1>>]}

\* let mut state = self.state.write().await
WriteLock(w) ==
    /\ wr[w].pc = "idle"
    /\ writes < MaxWrites
    /\ WriteGranted
    /\ \E call \in WriteCalls :
        /\ wr' = [wr EXCEPT ![w] = [pc |-> "field", op |-> call.op,
                                    arg |-> call.arg, sends |-> 0]]
        /\ added' = IF call.op = "add_log" THEN added + 1 ELSE added
    /\ lock' = w
    /\ writes' = writes + 1
    /\ UNCHANGED <<agg, change_rx, now, got, committed, last_sent>>
    /\ UNCHANGED <<orchVars, svcVars, producerVars, callVars, ctlVars, installVars, effectVars>>

\* the assignment to the field of the call (add_log: push and trim)
WriteField(w) ==
    /\ wr[w].pc = "field"
    /\ agg' = CASE wr[w].op = "update_stats" ->
                    [agg EXCEPT !.latest_stats = wr[w].arg]
                [] wr[w].op = "update_queue" ->
                    [agg EXCEPT !.latest_queue = wr[w].arg]
                [] wr[w].op = "update_services" ->
                    [agg EXCEPT !.services = wr[w].arg]
                [] wr[w].op = "add_log" ->
                    [agg EXCEPT !.recent_logs = PushLog(@, wr[w].arg[1])]
    /\ wr' = [wr EXCEPT ![w].pc = "stamp"]
    /\ UNCHANGED <<change_rx, now, added, lock, writes, got, committed, last_sent>>
    /\ UNCHANGED <<orchVars, svcVars, producerVars, callVars, ctlVars, installVars, effectVars>>

\* mutant: add_log broadcasts as the update calls do
AfterStamp_LogSends(op) == "send"

\* what follows the stamp: the update calls broadcast, add_log does not
AfterStamp(op) == IF op = "add_log" THEN "return" ELSE "send"

\* state.last_updated = Utc::now()
WriteStamp(w) ==
    /\ wr[w].pc = "stamp"
    /\ agg' = [agg EXCEPT !.last_updated = now]
    /\ wr' = [wr EXCEPT ![w].pc = AfterStamp(wr[w].op)]
    /\ UNCHANGED <<change_rx, now, added, lock, writes, got, committed, last_sent>>
    /\ UNCHANGED <<orchVars, svcVars, producerVars, callVars, ctlVars, installVars, effectVars>>

\* let _ = self.change_sender.send(state.clone())
WriteSend(w) ==
    /\ wr[w].pc = "send"
    /\ change_rx' = BroadcastSend(change_rx, agg)
    /\ last_sent' = Some(agg)
    /\ wr' = [wr EXCEPT ![w].pc = "return", ![w].sends = @ + 1]
    /\ UNCHANGED <<agg, now, added, lock, writes, got, committed>>
    /\ UNCHANGED <<orchVars, svcVars, producerVars, callVars, ctlVars, installVars, effectVars>>

\* the call returns and its write guard is dropped
WriteReturn(w) ==
    /\ wr[w].pc = "return"
    /\ lock' = "free"
    /\ committed' = agg
    /\ wr' = [wr EXCEPT ![w] = Idle]
    /\ UNCHANGED <<agg, change_rx, now, added, writes, got, last_sent>>
    /\ UNCHANGED <<orchVars, svcVars, producerVars, callVars, ctlVars, installVars, effectVars>>

\* StateManager::get_state: clone under the read lock
get_state ==
    /\ ReadGranted
    /\ got' = Some(agg)
    /\ UNCHANGED <<agg, change_rx, now, added, lock, wr, writes, committed, last_sent>>
    /\ UNCHANGED <<orchVars, svcVars, producerVars, callVars, ctlVars, installVars, effectVars>>

\* StateManager::subscribe: a new receiver, with nothing to read yet
StateSubscribe ==
    /\ Len(change_rx) < MaxSubscribers
    /\ change_rx' = Append(change_rx, <<>>)
    /\ UNCHANGED <<agg, now, added, lockVars, orchVars, svcVars, producerVars, callVars, ctlVars, installVars, effectVars>>

\* a subscriber takes the oldest broadcast it has not read
StateRecv ==
    /\ \E r \in DOMAIN change_rx :
        /\ change_rx[r] # <<>>
        /\ change_rx' = [change_rx EXCEPT ![r] = Tail(@)]
    /\ UNCHANGED <<agg, now, added, lockVars, orchVars, svcVars, producerVars, callVars, ctlVars, installVars, effectVars>>

\* a writer is called while the lock is held: the call waits in
\* self.state.write().await
WriteWait(w) ==
    /\ wr[w].pc = "idle"
    /\ writes < MaxWrites
    /\ ~WriteGranted
    /\ \E call \in WriteCalls :
        /\ wr' = [wr EXCEPT ![w] = [pc |-> "wait", op |-> call.op,
                                    arg |-> call.arg, sends |-> 0]]
        /\ added' = IF call.op = "add_log" THEN added + 1 ELSE added
    /\ writes' = writes + 1
    /\ UNCHANGED <<agg, change_rx, now, lock, got, committed, last_sent>>
    /\ UNCHANGED <<orchVars, svcVars, producerVars, callVars, ctlVars, installVars, effectVars>>

\* the lock was released and the waiting call is granted it
WriteAcquire(w) ==
    /\ wr[w].pc = "wait"
    /\ WriteGranted
    /\ wr' = [wr EXCEPT ![w].pc = "field"]
    /\ lock' = w
    /\ UNCHANGED <<agg, change_rx, now, added, writes, got, committed, last_sent>>
    /\ UNCHANGED <<orchVars, svcVars, producerVars, callVars, ctlVars, installVars, effectVars>>

\* the pc values of a task that is gone
Dead == [Idle EXCEPT !.pc = "dead"]

\* mutant: the guard of the failed task is never dropped
LockAfterFailure_Kept(w) == lock

\* tokio::sync::RwLock has no poisoning: when the task unwinds or its
\* future is dropped, the write guard it holds is dropped and the lock is
\* released; a task that was waiting leaves the wait queue
LockAfterFailure(w) == IF lock = w THEN "free" ELSE lock

\* the task making the call panics (Utc::now(), an allocation) or is
\* cancelled (at the await), while it waits for the lock or holds it; what
\* it had written so far stays in the state
TaskFails(w) ==
    /\ wr[w].pc \in {"wait", "field", "stamp", "send", "return"}
    /\ Cardinality({v \in Writers : wr[v].pc = "dead"}) < MaxFailures
    /\ lock' = LockAfterFailure(w)
    /\ committed' = IF lock = w THEN agg ELSE committed
    /\ wr' = [wr EXCEPT ![w] = Dead]
    /\ UNCHANGED <<agg, change_rx, now, added, writes, got, last_sent>>
    /\ UNCHANGED <<orchVars, svcVars, producerVars, callVars, ctlVars, installVars, effectVars>>

\* a holder of the Arc returned by shared_state() takes the write lock
\* itself and assigns a public field of the AggregatedState
SharedStateWrite ==
    /\ WriteGranted
    /\ writes < MaxWrites
    /\ writes' = writes + 1
    /\ \E snapshot \in Snapshots :
        agg' = [agg EXCEPT !.latest_stats = Some(snapshot)]
    /\ UNCHANGED <<change_rx, now, added, lock, wr, got, committed, last_sent>>
    /\ UNCHANGED <<orchVars, svcVars, producerVars, callVars, ctlVars, installVars, effectVars>>

----------------------------------------------------------------------------
(* LogWatcher (mc-actors/src/log_watcher.rs) *)

\* the bytes written to the log file; "nl" is the newline
LogChars == {"a", "nl"}

Whitespace == {" ", "nl"}

RECURSIVE trim_start(_)
trim_start(s) ==
    IF s # <<>> /\ Head(s) \in Whitespace THEN trim_start(Tail(s)) ELSE s

RECURSIVE trim_end(_)
trim_end(s) ==
    IF s # <<>> /\ s[Len(s)] \in Whitespace
    THEN trim_end(SubSeq(s, 1, Len(s) - 1))
    ELSE s

\* str::trim
trim(s) == trim_end(trim_start(s))

\* the successive results of reader.read_line until it returns 0: each is
\* the bytes up to and including the next newline, or up to end-of-file
RECURSIVE read_lines(_, _)
read_lines(bytes, line) ==
    IF bytes = <<>> THEN (IF line = <<>> THEN <<>> ELSE <<line>>)
    ELSE IF Head(bytes) = "nl"
         THEN <<Append(line, "nl")>> \o read_lines(Tail(bytes), <<>>)
         ELSE read_lines(Tail(bytes), Append(line, Head(bytes)))

\* the entry built from a trimmed line; its level and source are functions
\* of the message
LogEntry(trimmed) == [message |-> trimmed]

\* the entries the read loop sends for the bytes it finds
RECURSIVE entries_of(_)
entries_of(lines) ==
    IF lines = <<>> THEN <<>>
    ELSE LET trimmed == trim(Head(lines)) IN
         (IF trimmed # <<>> THEN <<LogEntry(trimmed)>> ELSE <<>>)
             \o entries_of(Tail(lines))

\* mutant: the file is read from its beginning
SeekFrom_Start(f) == 0

\* file.seek(SeekFrom::End(0))
SeekFrom_End(f) == Len(f)

\* a task that is over: only the fact that it was aborted is kept
Ended(t) == [NewWatchTask EXCEPT !.pc = "ended", !.aborted = t.aborted]

\* the log file comes into existence (its service starts)
FileCreate ==
    /\ ~file_exists
    /\ file_exists' = TRUE
    /\ UNCHANGED <<file, lw_handle, lw_tasks, log_rx, published>>
    /\ UNCHANGED <<orchVars, svcVars, aggVars, lockVars, queueVars, callVars, ctlVars, installVars, effectVars>>

\* a write to the log file; every task whose watch is in place gets a
\* MODIFY event
FileAppend ==
    /\ file_exists
    /\ Len(file) < MaxFileLen
    /\ \E c \in LogChars : file' = Append(file, c)
    /\ lw_tasks' = [t \in DOMAIN lw_tasks |->
                      IF lw_tasks[t].pc \in {"wait", "read"}
                      THEN [lw_tasks[t] EXCEPT !.events = TRUE]
                      ELSE lw_tasks[t]]
    /\ UNCHANGED <<file_exists, lw_handle, log_rx, published>>
    /\ UNCHANGED <<orchVars, svcVars, aggVars, lockVars, queueVars, callVars, ctlVars, installVars, effectVars>>

\* LogWatcher::start: spawn a task and store its handle over the old one
LogStart ==
    /\ Len(lw_tasks) < MaxWatchStarts
    /\ lw_tasks' = Append(lw_tasks, [NewWatchTask EXCEPT !.missing = ~file_exists])
    /\ lw_handle' = Some(Len(lw_tasks) + 1)
    /\ UNCHANGED <<file_exists, file, log_rx, published>>
    /\ UNCHANGED <<orchVars, svcVars, aggVars, lockVars, queueVars, callVars, ctlVars, installVars, effectVars>>

\* LogWatcher::stop: abort the task of the stored handle, if any
LogStop ==
    /\ lw_handle # None
    /\ lw_tasks' = [lw_tasks EXCEPT ![lw_handle[1]].aborted = TRUE]
    /\ lw_handle' = None
    /\ UNCHANGED <<file_exists, file, log_rx, published>>
    /\ UNCHANGED <<orchVars, svcVars, aggVars, lockVars, queueVars, callVars, ctlVars, installVars, effectVars>>

\* an aborted task is dropped at its await point (the sleep of the poll or
\* the wait for the blocking read)
LogAborted(t) ==
    /\ lw_tasks[t].aborted
    /\ lw_tasks[t].pc \in {"poll", "wait"}
    /\ lw_tasks' = [lw_tasks EXCEPT ![t] = Ended(@)]
    /\ UNCHANGED <<file_exists, file, lw_handle, log_rx, published>>
    /\ UNCHANGED <<orchVars, svcVars, aggVars, lockVars, queueVars, callVars, ctlVars, installVars, effectVars>>

\* while !log_path.exists() { sleep(5s) }: the loop is left once the file is
\* there
LogPoll(t) ==
    /\ lw_tasks[t].pc = "poll"
    /\ ~lw_tasks[t].aborted
    /\ file_exists
    /\ lw_tasks' = [lw_tasks EXCEPT ![t].pc = "open"]
    /\ UNCHANGED <<file_exists, file, lw_handle, log_rx, published>>
    /\ UNCHANGED <<orchVars, svcVars, aggVars, lockVars, queueVars, callVars, ctlVars, installVars, effectVars>>

\* Inotify::init, watches().add, File::open and seek to the end; each may
\* fail, which ends the task (start logs the error)
LogOpen(t) ==
    /\ lw_tasks[t].pc = "open"
    /\ \/ lw_tasks' = [lw_tasks EXCEPT ![t].pc = "wait",
                                       ![t].offset = SeekFrom_End(file),
                                       ![t].opened_at = Len(file)]
       \/ lw_tasks' = [lw_tasks EXCEPT ![t] = Ended(@)]
    /\ UNCHANGED <<file_exists, file, lw_handle, log_rx, published>>
    /\ UNCHANGED <<orchVars, svcVars, aggVars, lockVars, queueVars, callVars, ctlVars, installVars, effectVars>>

\* read_events_blocking returns events: has_events is Ok((_, true))
LogWake(t) ==
    /\ lw_tasks[t].pc = "wait"
    /\ ~lw_tasks[t].aborted
    /\ lw_tasks[t].events
    /\ lw_tasks' = [lw_tasks EXCEPT ![t].pc = "read", ![t].events = FALSE]
    /\ UNCHANGED <<file_exists, file, lw_handle, log_rx, published>>
    /\ UNCHANGED <<orchVars, svcVars, aggVars, lockVars, queueVars, callVars, ctlVars, installVars, effectVars>>

\* read_events_blocking returns Err: events.map(..).unwrap_or(false) makes
\* has_events Ok((_, false)), and the loop goes round again
LogNotifyError(t) ==
    /\ lw_tasks[t].pc = "wait"
    /\ ~lw_tasks[t].aborted
    /\ lw_tasks' = [lw_tasks EXCEPT ![t].errored = TRUE]
    /\ UNCHANGED <<file_exists, file, lw_handle, log_rx, published>>
    /\ UNCHANGED <<orchVars, svcVars, aggVars, lockVars, queueVars, callVars, ctlVars, installVars, effectVars>>

\* the blocking task itself fails (JoinError): the Err arm breaks the loop
LogJoinError(t) ==
    /\ lw_tasks[t].pc = "wait"
    /\ ~lw_tasks[t].aborted
    /\ lw_tasks' = [lw_tasks EXCEPT ![t] = Ended(@)]
    /\ UNCHANGED <<file_exists, file, lw_handle, log_rx, published>>
    /\ UNCHANGED <<orchVars, svcVars, aggVars, lockVars, queueVars, callVars, ctlVars, installVars, effectVars>>

\* the Ok((_, true)) arm: read to end-of-file, send one entry per non-blank
\* read_line result, and wait again
LogRead(t) ==
    /\ lw_tasks[t].pc = "read"
    /\ LET bytes == SubSeq(file, lw_tasks[t].offset + 1, Len(file))
           entries == entries_of(read_lines(bytes, <<>>))
       IN /\ log_rx' = send_all(log_rx, entries, BufferSize)
          /\ published' = published \o entries
          /\ lw_tasks' = [lw_tasks EXCEPT ![t].pc = "wait",
                                          ![t].offset = Len(file),
                                          ![t].out = @ \o entries]
    /\ UNCHANGED <<file_exists, file, lw_handle>>
    /\ UNCHANGED <<orchVars, svcVars, aggVars, lockVars, queueVars, callVars, ctlVars, installVars, effectVars>>

\* LogWatcher::subscribe: a receiver for what is sent from now on
LogSubscribe ==
    /\ Len(log_rx) < 1 + MaxLogSubscribers
    /\ log_rx' = Append(log_rx, NewReceiver(Len(published)))
    /\ UNCHANGED <<file_exists, file, lw_handle, lw_tasks, published>>
    /\ UNCHANGED <<orchVars, svcVars, aggVars, lockVars, queueVars, callVars, ctlVars, installVars, effectVars>>

\* a subscriber calls recv and does not have to wait
LogRecv(r) ==
    /\ log_rx[r].live
    /\ log_rx[r].missed > 0 \/ log_rx[r].unread # <<>>
    /\ log_rx' = [log_rx EXCEPT ![r] = recv(@)]
    /\ UNCHANGED <<file_exists, file, lw_handle, lw_tasks, published>>
    /\ UNCHANGED <<orchVars, svcVars, aggVars, lockVars, queueVars, callVars, ctlVars, installVars, effectVars>>

\* a subscriber drops its receiver
LogDrop(r) ==
    /\ log_rx[r].live
    /\ log_rx' = [log_rx EXCEPT ![r].live = FALSE, ![r].unread = <<>>]
    /\ UNCHANGED <<file_exists, file, lw_handle, lw_tasks, published>>
    /\ UNCHANGED <<orchVars, svcVars, aggVars, lockVars, queueVars, callVars, ctlVars, installVars, effectVars>>

----------------------------------------------------------------------------
(* LogLevel::from_line (mc-actors/src/log_watcher.rs) *)

\* the lowercase of an uppercase ASCII letter
LowerOf ==
    [c \in Upper |->
        CASE c = "A" -> "a" [] c = "B" -> "b" [] c = "C" -> "c" [] c = "D" -> "d"
          [] c = "E" -> "e" [] c = "F" -> "f" [] c = "G" -> "g" [] c = "H" -> "h"
          [] c = "I" -> "i" [] c = "J" -> "j" [] c = "K" -> "k" [] c = "L" -> "l"
          [] c = "M" -> "m" [] c = "N" -> "n" [] c = "O" -> "o" [] c = "P" -> "p"
          [] c = "Q" -> "q" [] c = "R" -> "r" [] c = "S" -> "s" [] c = "T" -> "t"
          [] c = "U" -> "u" [] c = "V" -> "v" [] c = "W" -> "w" [] c = "X" -> "x"
          [] c = "Y" -> "y" [] c = "Z" -> "z"]

\* str::to_lowercase, on ASCII text
to_lowercase(s) ==
    [i \in 1..Len(s) |-> IF s[i] \in Upper THEN LowerOf[s[i]] ELSE s[i]]

\* str::contains
contains(s, pat) ==
    \E i \in 1..(Len(s) - Len(pat) + 1) : SubSeq(s, i, i + Len(pat) - 1) = pat

\* mutant: the line is matched as it is written
from_line_CaseSensitive(line) ==
    LET lower == line IN
    IF \/ contains(lower, <<"e", "r", "r", "o", "r">>)
       \/ contains(lower, <<"f", "a", "t", "a", "l">>)
       \/ contains(lower, <<"p", "a", "n", "i", "c">>)
    THEN "Error"
    ELSE IF \/ contains(lower, <<"w", "a", "r", "n">>)
            \/ contains(lower, <<"r", "e", "j", "e", "c", "t">>)
         THEN "Warning"
         ELSE IF contains(lower, <<"d", "e", "b", "u", "g">>)
              THEN "Debug"
              ELSE "Info"

\* LogLevel::from_line
from_line(line) ==
    LET lower == to_lowercase(line) IN
    IF \/ contains(lower, <<"e", "r", "r", "o", "r">>)
       \/ contains(lower, <<"f", "a", "t", "a", "l">>)
       \/ contains(lower, <<"p", "a", "n", "i", "c">>)
    THEN "Error"
    ELSE IF \/ contains(lower, <<"w", "a", "r", "n">>)
            \/ contains(lower, <<"r", "e", "j", "e", "c", "t">>)
         THEN "Warning"
         ELSE IF contains(lower, <<"d", "e", "b", "u", "g">>)
              THEN "Debug"
              ELSE "Info"

\* a caller classifies the line
Classify ==
    /\ log_level' = Some(from_line(log_line))
    /\ UNCHANGED <<log_line, tail_path, tail_out>>
    /\ UNCHANGED <<orchVars, svcVars, aggVars, actorVars, ctlVars, installVars, effectVars>>

\* the caller moves on to another line
NextLine ==
    /\ log_level # None
    /\ log_line' \in Lines
    /\ log_level' = None
    /\ UNCHANGED <<tail_path, tail_out>>
    /\ UNCHANGED <<orchVars, svcVars, aggVars, actorVars, ctlVars, installVars, effectVars>>

----------------------------------------------------------------------------
(* LogWatcher::tail_lines (mc-actors/src/log_watcher.rs) *)

\* BufRead::lines: the lines of the file without their terminator, each
\* Ok(text) or, when its bytes are not valid UTF-8, an Err
reader_lines(bytes) ==
    LET raw == read_lines(bytes, <<>>) IN
    [i \in 1..Len(raw) |->
        LET text == IF raw[i][Len(raw[i])] = "nl"
                    THEN SubSeq(raw[i], 1, Len(raw[i]) - 1)
                    ELSE raw[i]
        IN [ok |-> \A k \in 1..Len(text) : text[k] # "bad", text |-> text]]

\* parse_source: the fifth space-separated field up to its first "[", or
\* "unknown"
parse_source(line) ==
    LET parts == Split(line, " ") IN
    IF Len(parts) >= 5 THEN Head(Split(parts[5], "["))
    ELSE <<"u", "n", "k", "n", "o", "w", "n">>

\* the LogEntry that tail_lines builds from a line at time t
TailEntry(line, t) ==
    [timestamp |-> t, level |-> from_line(line), source |-> parse_source(line),
     message |-> line]

\* LogWatcher::tail_lines(log_path, n) at time t, for what is at log_path
tail_lines(path, n, t) ==
    IF path.kind = "missing" THEN <<>>
    ELSE IF path.kind = "unreadable" THEN <<>>
    ELSE LET decoded == SelectSeq(reader_lines(path.bytes), LAMBDA l : l.ok)
             all_lines == [i \in 1..Len(decoded) |-> decoded[i].text]
             start == IF Len(all_lines) > n THEN Len(all_lines) - n ELSE 0
         IN [i \in 1..(Len(all_lines) - start) |-> TailEntry(all_lines[start + i], t)]

\* a caller reads the tail of the file
TailLines ==
    /\ \E n \in 0..MaxTail :
          tail_out' = Some([n |-> n, entries |-> tail_lines(tail_path, n, now)])
    /\ UNCHANGED <<log_line, log_level, tail_path>>
    /\ UNCHANGED <<orchVars, svcVars, aggVars, actorVars, ctlVars, installVars, effectVars>>

\* the caller moves on to another path
NextPath ==
    /\ tail_out # None
    /\ tail_path' \in TailPaths
    /\ tail_out' = None
    /\ UNCHANGED <<log_line, log_level>>
    /\ UNCHANGED <<orchVars, svcVars, aggVars, actorVars, ctlVars, installVars, effectVars>>

----------------------------------------------------------------------------
(* ServiceManager (mc-core/src/service/manager.rs), ControlService
   (mc-services/src/control.rs), step_enable_services *)

CEYMAIL_SERVICES ==
    {"postfix", "dovecot", "opendkim", "spamassassin", "apache2", "mariadb",
     "mysql", "unbound", "clamav-daemon", "clamav-freshclam", "fail2ban",
     "ceymail-mc"}

\* the names a caller of the control surface may hand in
ServiceNames == CEYMAIL_SERVICES \cup {"rsyslog", "sshd"}

\* ServiceAction, by the systemctl verb it runs
ServiceActions == {"start", "stop", "restart", "reload", "enable", "disable"}

\* what running systemctl can do: exit with success, exit with an error, or
\* fail to be spawned
SystemctlOutcomes == {"ok", "failed", "spawn_err"}

\* ServiceManager::check_whitelist
check_whitelist(service) == service \in CEYMAIL_SERVICES

\* ServiceManager::run_systemctl: its result
run_systemctl(action, service, outcome) ==
    CASE outcome = "ok" -> "Ok"
      [] outcome = "failed" -> "CommandFailed"
      [] outcome = "spawn_err" -> "Io"

\* ServiceManager::start / stop / restart / reload / enable / disable: the
\* result and the commands run
ManagerAction(action, service, outcome) ==
    IF ~check_whitelist(service)
    THEN [ret |-> "NotWhitelisted", issued |-> <<>>]
    ELSE [ret |-> run_systemctl(action, service, outcome),
          issued |-> <<[action |-> action, service |-> service]>>]

\* ControlService::control_service
control_service ==
    /\ es = NotEnabling
    /\ \E service_name \in ServiceNames, action \in ServiceActions,
          outcome \in SystemctlOutcomes, status_ok \in BOOLEAN :
         IF service_name \notin CEYMAIL_SERVICES
         THEN /\ ctl_ret' = Some("NotFound")
              /\ issued' = <<>>
         ELSE LET r == ManagerAction(action, service_name, outcome) IN
              /\ issued' = r.issued
              /\ ctl_ret' = Some(IF r.ret = "Ok" /\ status_ok
                                 THEN "Ok" ELSE "ServiceError")
    /\ UNCHANGED es
    /\ UNCHANGED <<orchVars, svcVars, aggVars, actorVars, callVars, installVars, effectVars>>

\* the services array of step_enable_services
EnabledServices ==
    <<"postfix", "dovecot", "opendkim", "apache2", "mariadb", "spamassassin",
      "unbound", "rsyslog">>

\* step_enable_services is entered
EnableServicesBegin ==
    /\ es.i = 0
    /\ es.ret = None
    /\ es' = [i |-> 1, enabled_count |-> 0, ret |-> None]
    /\ issued' = <<>>
    /\ ctl_ret' = None
    /\ UNCHANGED <<orchVars, svcVars, aggVars, actorVars, callVars, installVars, effectVars>>

\* one iteration of its loop: systemctl enable, then systemctl restart; a
\* command that cannot be spawned ends the step with an error, one that
\* exits with an error skips to the next service
EnableServicesIter ==
    /\ es.i \in 1..Len(EnabledServices)
    /\ LET service == EnabledServices[es.i]
           enable == [action |-> "enable", service |-> service]
           restart == [action |-> "restart", service |-> service]
           next == IF es.i = Len(EnabledServices) THEN 0 ELSE es.i + 1
           done == IF es.i = Len(EnabledServices)
                   THEN Some(Ok("Enabled and started services")) ELSE None
       IN \E enable_outcome \in SystemctlOutcomes, restart_outcome \in SystemctlOutcomes :
            CASE enable_outcome = "spawn_err" ->
                   /\ issued' = issued
                   /\ es' = [es EXCEPT !.i = 0, !.ret = Some(Err("Command failed: systemctl"))]
              [] enable_outcome = "failed" ->
                   /\ issued' = Append(issued, enable)
                   /\ es' = [es EXCEPT !.i = next, !.ret = done]
              [] enable_outcome = "ok" /\ restart_outcome = "spawn_err" ->
                   /\ issued' = Append(issued, enable)
                   /\ es' = [es EXCEPT !.i = 0, !.ret = Some(Err("Command failed: systemctl"))]
              [] enable_outcome = "ok" /\ restart_outcome = "failed" ->
                   /\ issued' = Append(Append(issued, enable), restart)
                   /\ es' = [es EXCEPT !.i = next, !.ret = done]
              [] enable_outcome = "ok" /\ restart_outcome = "ok" ->
                   /\ issued' = Append(Append(issued, enable), restart)
                   /\ es' = [es EXCEPT !.i = next, !.ret = done,
                                       !.enabled_count = @ + 1]
    /\ UNCHANGED ctl_ret
    /\ UNCHANGED <<orchVars, svcVars, aggVars, actorVars, callVars, installVars, effectVars>>

\* the dispatcher has taken the result of the step
EnableServicesEnd ==
    /\ es.i = 0
    /\ es.ret # None
    /\ es' = NotEnabling
    /\ issued' = <<>>
    /\ UNCHANGED ctl_ret
    /\ UNCHANGED <<orchVars, svcVars, aggVars, actorVars, callVars, installVars, effectVars>>

----------------------------------------------------------------------------
(* QueueMonitor (mc-actors/src/queue_monitor.rs) *)

\* char::is_ascii_hexdigit
HexDigit == Digit \cup {"a", "b", "c", "d", "e", "f"} \cup {"A", "B", "C", "D", "E", "F"}

\* the sequences over S of length at most n
SeqsUpTo(S, n) == UNION {[1..k -> S] : k \in 0..n}

\* a line of postqueue -j: blank, not a JSON object, or an entry with its
\* queue_name (None when the field is absent or null)
JsonLines ==
    {[text |-> "blank", queue_name |-> None],
     [text |-> "garbage", queue_name |-> None]}
        \cup {[text |-> "entry", queue_name |-> q] :
                 q \in {None} \cup {Some(n) : n \in {"active", "deferred", "hold",
                                                    "bounce", "corrupt", "incoming"}}}

\* lines of postqueue -p: a queue entry, a hexadecimal start on a line of
\* ten characters, the header, an empty line
PlainLines ==
    {<<"A", "1", "B", "2", "C", "3", "D", "4", "E", "5", "*", " ", "9">>,
     <<"A", "1", "B", "2", "C", "3", "D", "4", "E", "5">>,
     <<"-", "Q", "u", "e", "u", "e", " ", "I", "D", "-", " ", " ">>,
     <<>>}

\* what running postqueue can do: it cannot be spawned; -j exits with an
\* error and -p cannot be spawned; -j succeeds with some lines; -j exits
\* with an error and -p prints some lines
Postqueue ==
    {Unavailable, [j |-> "fail", jlines |-> <<>>, p |-> "err", plines |-> <<>>]}
        \cup {[j |-> "ok", jlines |-> l, p |-> "err", plines |-> <<>>] :
                 l \in SeqsUpTo(JsonLines, MaxLines)}
        \cup {[j |-> "fail", jlines |-> <<>>, p |-> "ok", plines |-> l] :
                 l \in SeqsUpTo(PlainLines, MaxLines)}

\* QueueSnapshot { timestamp: Utc::now(), ..Default::default() }
DefaultSnapshot(t) ==
    [timestamp |-> t, active |-> 0, deferred |-> 0, hold |-> 0, bounce |-> 0,
     total |-> 0]

\* the number of lines that parse as an entry whose queue_name is in names
CountQueue(lines, names) ==
    Len(SelectSeq(lines, LAMBDA l : /\ l.text = "entry"
                                    /\ l.queue_name # None
                                    /\ l.queue_name[1] \in names))

\* the Ok(output) if output.status.success() arm
collect_json(lines, snap) ==
    LET active == CountQueue(lines, {"active"})
        deferred == CountQueue(lines, {"deferred"})
        hold == CountQueue(lines, {"hold"})
        bounce == CountQueue(lines, {"bounce", "corrupt"})
    IN [snap EXCEPT !.active = active, !.deferred = deferred, !.hold = hold,
                    !.bounce = bounce,
                    !.total = active + deferred + hold + bounce]

\* mutant: the fallback sets the total only
collect_plain_TotalOnly(lines, snap) ==
    LET queue_lines == Len(SelectSeq(lines, LAMBDA l : Len(l) > 10 /\ Head(l) \in HexDigit))
    IN [snap EXCEPT !.total = queue_lines]

\* the fallback on postqueue -p: the lines longer than 10 characters that
\* start with a hexadecimal digit are counted, all as active
collect_plain(lines, snap) ==
    LET queue_lines == Len(SelectSeq(lines, LAMBDA l : Len(l) > 10 /\ Head(l) \in HexDigit))
    IN [snap EXCEPT !.total = queue_lines, !.active = queue_lines]

\* mutant: no fallback on postqueue -p
collect_queue_stats_NoFallback(run, t) ==
    IF run.j = "ok" THEN collect_json(run.jlines, DefaultSnapshot(t))
    ELSE DefaultSnapshot(t)

\* collect_queue_stats, with postqueue behaving as run says, at time t
collect_queue_stats(run, t) ==
    IF run.j = "ok" THEN collect_json(run.jlines, DefaultSnapshot(t))
    ELSE IF run.j = "fail" /\ run.p = "ok"
         THEN collect_plain(run.plines, DefaultSnapshot(t))
         ELSE DefaultSnapshot(t)

\* the mail queue, or the postqueue installation, changes
ToolChange ==
    /\ \E run \in Postqueue : tool' = run
    /\ UNCHANGED <<last_check, qm_handle, qm_tasks, queue_rx, qm_stopped>>
    /\ UNCHANGED <<orchVars, svcVars, aggVars, lockVars, watchVars, callVars, ctlVars, installVars, effectVars>>

\* QueueMonitor::check_once
check_once ==
    /\ last_check' = Some(collect_queue_stats(tool, now))
    /\ UNCHANGED <<tool, qm_handle, qm_tasks, queue_rx, qm_stopped>>
    /\ UNCHANGED <<orchVars, svcVars, aggVars, lockVars, watchVars, callVars, ctlVars, installVars, effectVars>>

\* QueueMonitor::start: spawn a task and store its handle over the old one
QueueStart ==
    /\ Len(qm_tasks) < MaxStarts
    /\ qm_tasks' = Append(qm_tasks, NewQueueTask)
    /\ qm_handle' = Some(Len(qm_tasks) + 1)
    /\ qm_stopped' = FALSE
    /\ UNCHANGED <<tool, last_check, queue_rx>>
    /\ UNCHANGED <<orchVars, svcVars, aggVars, lockVars, watchVars, callVars, ctlVars, installVars, effectVars>>

\* QueueMonitor::stop: abort the task of the stored handle, if any
QueueStop ==
    /\ IF qm_handle # None
       THEN qm_tasks' = [qm_tasks EXCEPT ![qm_handle[1]].aborted = TRUE]
       ELSE qm_tasks' = qm_tasks
    /\ qm_handle' = None
    /\ qm_stopped' = TRUE
    /\ UNCHANGED <<tool, last_check, queue_rx>>
    /\ UNCHANGED <<orchVars, svcVars, aggVars, lockVars, watchVars, callVars, ctlVars, installVars, effectVars>>

\* an aborted task is dropped where it awaits: before its first poll, or in
\* the sleep between two rounds
QueueAborted ==
    /\ \E t \in DOMAIN qm_tasks :
        /\ qm_tasks[t].aborted
        /\ qm_tasks[t].pc \in {"spawned", "sleep"}
        /\ qm_tasks' = [qm_tasks EXCEPT ![t].pc = "ended"]
    /\ UNCHANGED <<tool, last_check, qm_handle, queue_rx, qm_stopped>>
    /\ UNCHANGED <<orchVars, svcVars, aggVars, lockVars, watchVars, callVars, ctlVars, installVars, effectVars>>

\* the runtime polls the task for the first time, or the sleep is over: the
\* task enters a round of its loop
QueueWake ==
    /\ \E t \in DOMAIN qm_tasks :
        /\ ~qm_tasks[t].aborted
        /\ qm_tasks[t].pc \in {"spawned", "sleep"}
        /\ qm_tasks' = [qm_tasks EXCEPT ![t].pc = "collect"]
    /\ UNCHANGED <<tool, last_check, qm_handle, queue_rx, qm_stopped>>
    /\ UNCHANGED <<orchVars, svcVars, aggVars, lockVars, watchVars, callVars, ctlVars, installVars, effectVars>>

\* let snapshot = collect_queue_stats()
QueueCollect ==
    /\ \E t \in DOMAIN qm_tasks :
        /\ qm_tasks[t].pc = "collect"
        /\ qm_tasks' = [qm_tasks EXCEPT
                           ![t].pc = "send",
                           ![t].held = Some(collect_queue_stats(tool, now))]
    /\ UNCHANGED <<tool, last_check, qm_handle, queue_rx, qm_stopped>>
    /\ UNCHANGED <<orchVars, svcVars, aggVars, lockVars, watchVars, callVars, ctlVars, installVars, effectVars>>

\* let _ = sender.send(snapshot), and on to the sleep
QueueSend ==
    /\ \E t \in DOMAIN qm_tasks :
        /\ qm_tasks[t].pc = "send"
        /\ queue_rx' = send(queue_rx, qm_tasks[t].held[1], BufferSize)
        /\ qm_tasks' = [qm_tasks EXCEPT ![t].pc = "sleep", ![t].held = None]
    /\ \A r \in DOMAIN queue_rx : queue_rx[r].lost < MaxMissed
    /\ UNCHANGED <<tool, last_check, qm_handle, qm_stopped>>
    /\ UNCHANGED <<orchVars, svcVars, aggVars, lockVars, watchVars, callVars, ctlVars, installVars, effectVars>>

----------------------------------------------------------------------------
(* Specifications *)

\* one orchestrator driven directly through run_all and run_step
Next ==
    \/ RunAllCall
    \/ RunAllBegin
    \/ RunAllExec
    \/ RunStepCall
    \/ RunStepExec

Spec == Init /\ [][Next]_vars

\* one start_install or resume_install run and the consumer of its stream
NextService ==
    \/ StartInstall
    \/ StartRunAll
    \/ RunAllBegin
    \/ RunAllExec
    \/ StartResult
    \/ ResumeInstall
    \/ ResumeLoop
    \/ RunStepExec
    \/ ResumeResult
    \/ StreamNext
    \/ StreamDrop

SpecService == Init /\ [][NextService]_vars

\* a step of the spawned task; the runtime keeps polling a spawned task
\* that can make progress, and no step of it waits on the consumer
TaskStep ==
    \/ StartRunAll
    \/ RunAllBegin
    \/ RunAllExec
    \/ StartResult
    \/ ResumeLoop
    \/ RunStepExec
    \/ ResumeResult

SpecServiceFair == Init /\ [][NextService]_vars /\ WF_vars(TaskStep)

NextInstallState ==
    \/ NextService
    \/ get_install_state

SpecInstallState == Init /\ [][NextInstallState]_vars

NextRuns ==
    \/ NextService
    \/ SecondStartInstall
    \/ SecondResumeInstall
    \/ OtherExec

SpecRuns == InitAgg /\ [][NextRuns]_vars

\* the state aggregator and its writers
NextAgg ==
    \/ update_stats
    \/ update_queue
    \/ update_services
    \/ add_log
    \/ Tick

SpecAgg == InitAgg /\ [][NextAgg]_vars

\* the state aggregator with concurrent writers, readers and a subscriber
NextState ==
    \/ \E w \in Writers : WriteLock(w)
    \/ \E w \in Writers : WriteField(w)
    \/ \E w \in Writers : WriteStamp(w)
    \/ \E w \in Writers : WriteSend(w)
    \/ \E w \in Writers : WriteReturn(w)
    \/ get_state
    \/ StateSubscribe
    \/ StateRecv
    \/ Tick

SpecState == InitAgg /\ [][NextState]_vars

\* concurrent writers, a reader, and subscribers that keep every broadcast
\* they were sent
NextOrder ==
    \/ \E w \in Writers : WriteLock(w)
    \/ \E w \in Writers : WriteField(w)
    \/ \E w \in Writers : WriteStamp(w)
    \/ \E w \in Writers : WriteSend(w)
    \/ \E w \in Writers : WriteReturn(w)
    \/ get_state
    \/ StateSubscribe
    \/ Tick

SpecOrder == InitAgg /\ [][NextOrder]_vars

\* the same, with a component that was handed shared_state()
NextHandle ==
    \/ NextState
    \/ SharedStateWrite

SpecHandle == InitAgg /\ [][NextHandle]_vars

\* one LogWatcher and the log file it watches, while the notification
\* subsystem reports no error
NextWatcher ==
    \/ FileCreate
    \/ FileAppend
    \/ LogStart
    \/ LogStop
    \/ \E t \in DOMAIN lw_tasks : LogAborted(t)
    \/ \E t \in DOMAIN lw_tasks : LogPoll(t)
    \/ \E t \in DOMAIN lw_tasks : LogOpen(t)
    \/ \E t \in DOMAIN lw_tasks : LogWake(t)
    \/ \E t \in DOMAIN lw_tasks : LogJoinError(t)
    \/ \E t \in DOMAIN lw_tasks : LogRead(t)

SpecWatcher == InitAgg /\ [][NextWatcher]_vars

\* a watching LogWatcher whose waits for events can fail
NextNotify ==
    \/ FileAppend
    \/ \E t \in DOMAIN lw_tasks : LogWake(t)
    \/ \E t \in DOMAIN lw_tasks : LogNotifyError(t)
    \/ \E t \in DOMAIN lw_tasks : LogJoinError(t)
    \/ \E t \in DOMAIN lw_tasks : LogRead(t)

SpecNotify == InitLogChannel /\ [][NextNotify]_vars

\* one QueueMonitor, started and stopped by its owner
NextQueue ==
    \/ ToolChange
    \/ QueueStart
    \/ QueueStop
    \/ QueueAborted
    \/ QueueWake
    \/ QueueCollect
    \/ QueueSend

SpecQueue == InitAgg /\ [][NextQueue]_vars

\* the ways a QueueSnapshot is made: check_once and the monitor's loop
NextCollect ==
    \/ ToolChange
    \/ check_once
    \/ QueueWake
    \/ QueueCollect
    \/ QueueSend

SpecCollect == InitCollect /\ [][NextCollect]_vars

\* a watching LogWatcher and the subscribers of its channel
NextLogChannel ==
    \/ FileAppend
    \/ \E t \in DOMAIN lw_tasks : LogWake(t)
    \/ \E t \in DOMAIN lw_tasks : LogRead(t)
    \/ LogSubscribe
    \/ \E r \in DOMAIN log_rx : LogRecv(r)
    \/ \E r \in DOMAIN log_rx : LogDrop(r)

SpecLogChannel == InitLogChannel /\ [][NextLogChannel]_vars

NextControl ==
    \/ control_service
    \/ EnableServicesBegin
    \/ EnableServicesIter
    \/ EnableServicesEnd

SpecControl == InitAgg /\ [][NextControl]_vars

\* the daemon's actors as the source composes them: the LogWatcher's task
\* tails the file and publishes, subscribers of its channel read; no code
\* receives from a producer's channel and calls a StateManager writer
NextDaemon ==
    \/ FileAppend
    \/ \E t \in DOMAIN lw_tasks : LogWake(t)
    \/ \E t \in DOMAIN lw_tasks : LogRead(t)
    \/ \E r \in DOMAIN log_rx : LogRecv(r)

\* a step of the watcher's task, which the runtime keeps polling
WatcherStep == \E t \in DOMAIN lw_tasks : LogWake(t) \/ LogRead(t)

SpecDaemon == InitLogChannel /\ [][NextDaemon]_vars /\ WF_vars(WatcherStep)

NextCrash ==
    \/ \E w \in Writers : WriteLock(w)
    \/ \E w \in Writers : WriteWait(w)
    \/ \E w \in Writers : WriteAcquire(w)
    \/ \E w \in Writers : WriteField(w)
    \/ \E w \in Writers : WriteStamp(w)
    \/ \E w \in Writers : WriteSend(w)
    \/ \E w \in Writers : WriteReturn(w)
    \/ \E w \in Writers : TaskFails(w)
    \/ get_state

\* the statements of a writer call once it was made; the runtime keeps
\* polling the task that makes the call
WriterStep(w) ==
    \/ WriteAcquire(w)
    \/ WriteField(w)
    \/ WriteStamp(w)
    \/ WriteSend(w)
    \/ WriteReturn(w)

SpecCrash ==
    InitAgg /\ [][NextCrash]_vars /\ \A w \in Writers : WF_vars(WriterStep(w))

NextTail ==
    \/ TailLines
    \/ NextPath

SpecTail == InitTail /\ [][NextTail]_vars

NextLevel ==
    \/ Classify
    \/ NextLine

SpecLevel == InitLevel /\ [][NextLevel]_vars

----------------------------------------------------------------------------
(* Properties *)

\* the configuration passes all four input validators
ConfigValid(cfg) ==
    /\ validate_hostname(cfg.hostname)
    /\ validate_domain(cfg.mail_domain)
    /\ validate_email(cfg.admin_email)
    /\ validate_password(cfg.admin_password)

Terminal(status) == status.kind \in {"Completed", "Failed"}

\* a run_all call has returned
RunAllReturned == pc = "idle" /\ ret.call = "run_all"

\* the failure notifications the progress callback got during the call
FailedNotes == {n \in 1..Len(sink) : sink[n].status.kind = "Failed"}

\* a run_all call has returned and one of its steps had failed
RunAllStepFailed == RunAllReturned /\ FailedNotes # {}

\* C1: when run_all returns because step k failed, it returns an error,
\* steps 0..k-1 are Completed, step k is Failed with the error message, and
\* every step after k is as it was when run_all was called and its handler
\* was not invoked: on a fresh orchestrator it is still Pending and was
\* never attempted.
C1_RunAllHaltsAtFailedStep ==
    RunAllStepFailed =>
        /\ ~ret.ok
        /\ FailedNotes = {Len(sink)}
        /\ sink[Len(sink)] = steps[cur]
        /\ \A j \in StepIdx : j < cur => steps[j].status = Completed
        /\ steps[cur].status = Failed(ret.error)
        /\ steps[cur].message = ret.error
        /\ \A j \in StepIdx : j > cur =>
            /\ steps[j] = at_entry.steps[j]
            /\ invoked[j] = at_entry.invoked[j]
            /\ (calls = 1 => steps[j].status = Pending /\ invoked[j] = 0)

\* a first run_all failed at a step in the middle of the pipeline
C1_Witness ==
    /\ RunAllStepFailed
    /\ calls = 1
    /\ cur = 4
    /\ steps[4].status.kind = "Failed"
    /\ steps[3].status = Completed
    /\ steps[5].status = Pending

\* C2: run_all on a configuration that fails validation returns an error
\* and has no side effect: every step is as it was (Pending on a fresh
\* orchestrator), no handler has run and the progress callback was not
\* invoked.
C2_InvalidConfigNoSideEffects ==
    (RunAllReturned /\ ~ConfigValid(config)) =>
        /\ ~ret.ok
        /\ steps = at_entry.steps
        /\ invoked = at_entry.invoked
        /\ sink = <<>>
        /\ (calls = 1 =>
              \A j \in StepIdx : steps[j].status = Pending /\ invoked[j] = 0)

\* run_all on a fresh orchestrator was refused for the invalid admin email
C2_Witness ==
    /\ RunAllReturned
    /\ calls = 1
    /\ config.admin_email = EmailBad
    /\ ret.error = "Step failed: validation - Invalid admin email"
    /\ steps[0].status = Pending

AtMostOneInProgress ==
    \A i, j \in StepIdx :
        (steps[i].status = InProgress /\ steps[j].status = InProgress) => i = j

\* C3 as claimed: at most one step is InProgress at a time, and a step is
\* InProgress only when the step immediately before it in the pipeline has
\* reached a terminal state.
C3_Original ==
    /\ AtMostOneInProgress
    /\ \A i \in StepIdx :
        (steps[i].status = InProgress /\ i > 0) => Terminal(steps[i - 1].status)

\* C3 amended: at most one step is InProgress at a time, and a step that
\* run_all makes InProgress becomes so only when the step immediately before
\* it has reached a terminal state.
C3_Amended ==
    /\ AtMostOneInProgress
    /\ (pc = "ra_exec" /\ cur > 0) => Terminal(steps[cur - 1].status)

\* run_all is executing a later step after a run_step left a step Failed
C3_Witness ==
    /\ pc = "ra_exec"
    /\ cur = 2
    /\ steps[2].status = InProgress
    /\ steps[1].status = Completed
    /\ steps[5].status.kind = "Failed"

\* what the caller of start_install / resume_install has been sent
Items == stream \o chan

\* item n reports step i (the final error item of start_install reports none)
ItemFor(n, i) == Items[n].step_index = i /\ Items[n].step_name # <<"error">>

InProgressItems(i) ==
    {n \in 1..Len(Items) : ItemFor(n, i) /\ Items[n].status = <<"in_progress">>}

TerminalItems(i) ==
    {n \in 1..Len(Items) :
        ItemFor(n, i) /\ Items[n].status[1] \in {"completed", "failed: "}}

\* every transition of step i so far has been reported, InProgress first
Reported(i) ==
    /\ steps[i].status # Pending => InProgressItems(i) # {}
    /\ (Terminal(steps[i].status) /\ pc # "re_result") => TerminalItems(i) # {}
    /\ \A n \in TerminalItems(i) : \E m \in InProgressItems(i) : m < n

\* C4: every status transition of a step, whether the step is executed by
\* run_all (start_install) or by run_step (resume_install), is reported to
\* the caller's progress sink, which sees the step InProgress before it sees
\* it Completed or Failed.
C4_EveryTransitionReported == rx_alive => \A i \in StepIdx : Reported(i)

Range(seq) == {seq[k] : k \in 1..Len(seq)}

NotCompleted(completed_steps) ==
    {i \in StepIdx : StepName(i) \notin Range(completed_steps)}

\* C5: resume_install runs run_step first for the first step, in pipeline
\* order, whose name is not in completed_steps, and never for a step named
\* in completed_steps.
C5_ResumeAtFirstNotCompleted ==
    task.kind = "resume" =>
        /\ \A i \in StepIdx :
            StepName(i) \in Range(task.completed_steps) =>
                steps[i].status = Pending /\ invoked[i] = 0
        /\ \A i \in StepIdx :
            steps[i].status # Pending =>
                \E f \in NotCompleted(task.completed_steps) :
                    /\ \A g \in NotCompleted(task.completed_steps) : f <= g
                    /\ steps[f].status # Pending

\* let start_from = completed_steps.len()
start_from == Len(task.completed_steps)

\* C6: resume_install runs the remaining steps in pipeline order, each at
\* most once, and stops at the first run_step that fails: no step after the
\* failed one is attempted.
C6_ResumeStopsAtFirstFailure ==
    task.kind = "resume" =>
        \A i \in StepIdx :
            /\ invoked[i] <= 1
            /\ i < start_from => (steps[i].status = Pending /\ invoked[i] = 0)
            /\ (i > start_from /\ (steps[i].status # Pending \/ invoked[i] > 0))
                  => steps[i - 1].status = Completed
            /\ steps[i].status.kind = "Failed" =>
                  \A j \in StepIdx :
                      j > i => (steps[j].status = Pending /\ invoked[j] = 0)

\* a resume from index 2 ended at the failure of step 3
C6_Witness ==
    /\ task.kind = "resume"
    /\ task.finished
    /\ start_from = 2
    /\ steps[2].status = Completed
    /\ steps[3].status.kind = "Failed"
    /\ steps[4].status = Pending
    /\ ~ret.ok

\* C7 as claimed: once a step is Completed or Failed, no later run_all or
\* run_step call changes its status.
C7_Original ==
    [][\A i \in StepIdx :
          Terminal(steps[i].status) => steps'[i].status = steps[i].status]_vars

\* C7 amended: every step is created Pending, and during one run_all call
\* each step makes the transition InProgress -> (Completed | Failed) once:
\* run_all visits the steps in increasing order and does not change a step
\* it has already moved to Completed before it returns.
C7_Amended ==
    [][/\ calls = 0 =>
            \A j \in StepIdx :
                steps[j].status = Pending /\ steps[j].progress_percent = 0
       /\ pc \in {"ra_begin", "ra_exec"} =>
            \A j \in StepIdx :
                j < cur => /\ steps[j].status = Completed
                           /\ steps'[j] = steps[j]
                           /\ invoked'[j] = invoked[j]
       /\ (pc = "ra_exec" /\ pc' = "ra_begin") => cur' = cur + 1]_vars

\* a second call is a run_all that has run again a step that had Failed
C7_Witness ==
    /\ pc = "ra_exec"
    /\ calls = 2
    /\ cur = 3
    /\ at_entry.steps[0].status.kind = "Failed"
    /\ steps[0].status = Completed

\* C8: no step ever executes with an InstallConfig that fails validation.
C8_NoStepOnInvalidConfig ==
    \A i \in StepIdx :
        (steps[i].status # Pending \/ invoked[i] > 0) => ConfigValid(config)

\* a run_step call has returned
RunStepReturned == pc = "idle" /\ ret.call = "run_step"

\* C9: run_step(index) runs the handler of the step at index once and
\* returns its resulting state (Err with the failure message when the step
\* failed); every other step is unchanged and no other handler runs; with
\* index >= 12 it returns an error and leaves every step unchanged.
C9_RunStepTouchesOneStep ==
    RunStepReturned =>
        IF at_entry.index >= 12
        THEN /\ ~ret.ok
             /\ steps = at_entry.steps
             /\ invoked = at_entry.invoked
        ELSE /\ \A j \in StepIdx :
                  j # at_entry.index =>
                      /\ steps[j] = at_entry.steps[j]
                      /\ invoked[j] = at_entry.invoked[j]
             /\ invoked[at_entry.index] = at_entry.invoked[at_entry.index] + 1
             /\ ret.ok => /\ ret.step = steps[at_entry.index]
                          /\ ret.step.status = Completed
             /\ ~ret.ok => steps[at_entry.index].status = Failed(ret.error)

\* run_step(5) returned Ok after an earlier call had left step 4 Failed
C9_Witness ==
    /\ RunStepReturned
    /\ ret.ok
    /\ at_entry.index = 5
    /\ steps[5].status = Completed
    /\ steps[4].status.kind = "Failed"
    /\ steps[6].status = Pending

\* C10: recent_logs holds at most 1000 entries, and they are the most
\* recently added entries in insertion order.
C10_RecentLogsBounded ==
    LET n == Min(added, 1000) IN
    /\ Len(agg.recent_logs) <= 1000
    /\ agg.recent_logs = [k \in 1..n |-> added - n + k]

\* two entries have been evicted, between update_* calls
C10_Witness ==
    /\ added = 1002
    /\ Len(agg.recent_logs) = 1000
    /\ agg.recent_logs[1] = 3
    /\ agg.latest_stats # None
    /\ agg.services # <<>>

----------------------------------------------------------------------------
(* StateManager under concurrent callers *)

\* the writers that are inside a call, between taking and dropping the lock
InCall == {w \in Writers : wr[w].pc # "idle"}

\* C11: every state returned by get_state is the state that the last writer
\* call to return left behind (or the initial state), never a state with a
\* replaced field and the last_updated of the previous update; and at most
\* one writer is inside a call at a time.
C11_NoTornRead ==
    /\ [][got' # got => got' = Some(committed)]_vars
    /\ [](Cardinality(InCall) <= 1)

\* a reader holds the state of a finished update_stats call while another
\* writer has replaced a field and not yet stamped it
C11_Witness ==
    /\ got # None
    /\ got[1].latest_stats # None
    /\ got[1].last_updated = 1
    /\ \E w \in Writers : wr[w].pc = "stamp" /\ wr[w].op = "update_queue"
    /\ agg # got[1]

\* the field that a call replaces, read from state st
FieldOf(st, op) ==
    CASE op = "update_stats" -> st.latest_stats
      [] op = "update_queue" -> st.latest_queue
      [] op = "update_services" -> st.services
      [] op = "add_log" -> <<st.recent_logs[Len(st.recent_logs)]>>

\* C12: when an update_stats, update_queue or update_services call returns,
\* its field holds the argument and the call has sent exactly one broadcast,
\* whose content is the whole state as the call leaves it; when add_log
\* returns, the entry is in the state and the call has sent no broadcast.
C12_OneBroadcastPerUpdate ==
    [][\A w \in Writers :
          (wr[w].pc = "return" /\ wr'[w].pc = "idle") =>
              /\ FieldOf(agg, wr[w].op) = wr[w].arg
              /\ IF wr[w].op = "add_log"
                 THEN wr[w].sends = 0
                 ELSE wr[w].sends = 1 /\ last_sent = Some(agg)]_vars

\* with no subscriber at all, an add_log and then an update_queue call have
\* returned: the state holds both and the broadcast was the whole state
C12_Witness ==
    /\ Len(change_rx) = 0
    /\ InCall = {}
    /\ agg.recent_logs = <<1>>
    /\ agg.latest_queue # None
    /\ last_sent = Some(agg)

\* C13: the AggregatedState changes only in the steps of an update_stats,
\* update_queue, update_services or add_log call that holds the write lock.
C13_OnlyTheFourMethodsWrite ==
    [][agg' # agg => lock \in Writers /\ wr[lock].pc \in {"field", "stamp"}]_vars

----------------------------------------------------------------------------
(* The LogWatcher's broadcast channel *)

\* the entries published since receiver r was created
Since(r) == SubSeq(published, log_rx[r].at + 1, Len(published))

\* C14: a publisher that has entries to send can always send them, whatever
\* the receivers hold; a live receiver holds at most BufferSize unread
\* entries, they are the most recently published ones, and every entry
\* published since it subscribed was received, is unread or was missed; a
\* receiver misses an entry only when that leaves it BufferSize unread ones.
C14_PublishNeverBlocks ==
    /\ [](\A t \in DOMAIN lw_tasks :
            lw_tasks[t].pc = "read" => ENABLED LogRead(t))
    /\ [](\A r \in DOMAIN log_rx :
            log_rx[r].live =>
                /\ Len(log_rx[r].unread) <= BufferSize
                /\ log_rx[r].unread = Suffix(published, Len(log_rx[r].unread))
                /\ Len(log_rx[r].taken) + log_rx[r].lost + Len(log_rx[r].unread)
                       = Len(Since(r)))
    /\ [][\A r \in DOMAIN log_rx :
            log_rx'[r].lost > log_rx[r].lost =>
                Len(log_rx'[r].unread) = BufferSize]_vars

\* the receiver returned by new() never read and has missed an entry, while
\* a later subscriber has received what was published since it subscribed
C14_Witness ==
    /\ Len(log_rx) = 2
    /\ log_rx[1].lost > 0
    /\ log_rx[1].taken = <<>>
    /\ Len(log_rx[1].unread) = BufferSize
    /\ log_rx[2].live
    /\ log_rx[2].lost = 0
    /\ log_rx[2].taken # <<>>
    /\ log_rx[2].taken = Since(2)

----------------------------------------------------------------------------
(* The LogWatcher's task *)

\* the tasks that have opened the file
Opened == {t \in DOMAIN lw_tasks : lw_tasks[t].pc \in {"wait", "read"}}

IsPrefix(a, b) == Len(a) <= Len(b) /\ a = SubSeq(b, 1, Len(a))

\* the non-blank lines, each complete with its newline, written after task
\* t opened the file, as entries
WholeLines(t) ==
    LET bytes == SubSeq(file, lw_tasks[t].opened_at + 1, Len(file))
        complete == SelectSeq(read_lines(bytes, <<>>),
                              LAMBDA l : l[Len(l)] = "nl")
    IN entries_of(complete)

\* C17: the entries a task has sent are, in order and one per line, the
\* whole non-blank lines appended since it opened the file.
C17_OneEntryPerWholeLine ==
    \A t \in Opened : IsPrefix(lw_tasks[t].out, WholeLines(t))

\* C18: a task whose wait for events met a notification error has left the
\* watch loop.
C18_NotifyErrorEndsLoop ==
    \A t \in DOMAIN lw_tasks : lw_tasks[t].errored => lw_tasks[t].pc = "ended"

\* the bytes of seq that are not whitespace
NonBlank(seq) == SelectSeq(seq, LAMBDA c : c \notin Whitespace)

\* the messages of the entries, one after the other
RECURSIVE Messages(_)
Messages(entries) ==
    IF entries = <<>> THEN <<>>
    ELSE Head(entries).message \o Messages(Tail(entries))

----------------------------------------------------------------------------
(* The QueueMonitor *)

\* C16: once stop() has returned, and until start() is called again, the
\* receivers of the producer's channel are sent nothing.
C16_NothingPublishedAfterStop ==
    [][qm_stopped /\ qm_stopped' => queue_rx' = queue_rx]_vars

\* the snapshots that exist: the last result of check_once, those the tasks
\* hold between collecting and sending, those in the receivers
QueueSnapshots ==
    {last_check[i] : i \in DOMAIN last_check}
        \cup {qm_tasks[t].held[1] : t \in {u \in DOMAIN qm_tasks : qm_tasks[u].held # None}}
        \cup UNION {Range(queue_rx[r].unread) : r \in DOMAIN queue_rx}

\* C20: every QueueSnapshot has total = active + deferred + hold + bounce.
C20_TotalIsSum ==
    \A s \in QueueSnapshots : s.total = s.active + s.deferred + s.hold + s.bounce

\* check_once went through the plain-text fallback and counted one entry,
\* while the loop holds a snapshot it made from a JSON listing
C20_Witness ==
    /\ tool.j = "fail"
    /\ tool.p = "ok"
    /\ last_check # None
    /\ last_check[1].total = 1
    /\ \E t \in DOMAIN qm_tasks :
          qm_tasks[t].held # None /\ qm_tasks[t].held[1].bounce = 1

\* the lines of a plain-text listing that stand for a queued message
QueueEntryLines(lines) ==
    SelectSeq(lines, LAMBDA l : Len(l) > 10 /\ Head(l) \in HexDigit)

\* C21: check_once always returns a snapshot; when postqueue -j exits with an
\* error and postqueue -p runs, every entry of the plain listing is counted
\* as active and deferred = hold = bounce = 0; when postqueue cannot be run
\* all the counts are zero.
C21_CheckOnceDegrades ==
    [][last_check' # last_check =>
          /\ last_check' # None
          /\ LET s == last_check'[1] IN
               /\ (tool.j = "fail" /\ tool.p = "ok") =>
                     /\ s.active = Len(QueueEntryLines(tool.plines))
                     /\ s.total = s.active
                     /\ s.deferred = 0 /\ s.hold = 0 /\ s.bounce = 0
               /\ (tool.j = "err" \/ (tool.j = "fail" /\ tool.p = "err")) =>
                     /\ s.active = 0 /\ s.deferred = 0 /\ s.hold = 0
                     /\ s.bounce = 0 /\ s.total = 0]_vars

\* check_once has answered from a plain-text listing of one entry
C21_Witness ==
    /\ tool.j = "fail"
    /\ tool.p = "ok"
    /\ Len(QueueEntryLines(tool.plines)) = 1
    /\ last_check # None
    /\ last_check[1].active = 1
    /\ last_check[1].deferred = 0

\* the line contains one of the words, whatever the case of its letters
Mentions(line, words) ==
    \E w \in words : \E i \in 1..(Len(line) - Len(w) + 1) :
        \A j \in 1..Len(w) :
            LET c == line[i + j - 1] IN
            c = w[j] \/ (c \in Upper /\ LowerOf[c] = w[j])

ErrorWords ==
    {<<"e", "r", "r", "o", "r">>, <<"f", "a", "t", "a", "l">>, <<"p", "a", "n", "i", "c">>}

WarningWords == {<<"w", "a", "r", "n">>, <<"r", "e", "j", "e", "c", "t">>}

DebugWords == {<<"d", "e", "b", "u", "g">>}

\* C23 as stated: a line with an Error keyword is Error; a line with a
\* Warning keyword and no Error keyword is Warning; a line containing
\* "debug" is Debug; any other line is Info.
C23_Original ==
    log_level # None =>
        /\ Mentions(log_line, ErrorWords) => log_level[1] = "Error"
        /\ (Mentions(log_line, WarningWords) /\ ~Mentions(log_line, ErrorWords))
               => log_level[1] = "Warning"
        /\ Mentions(log_line, DebugWords) => log_level[1] = "Debug"
        /\ ~Mentions(log_line, ErrorWords \cup WarningWords \cup DebugWords)
               => log_level[1] = "Info"

\* C23 amended: the keywords are tried in the order Error, Warning, Debug;
\* a line containing "debug" is Debug only when it has no Error and no
\* Warning keyword.
C23_Amended ==
    log_level # None =>
        /\ Mentions(log_line, ErrorWords) => log_level[1] = "Error"
        /\ (Mentions(log_line, WarningWords) /\ ~Mentions(log_line, ErrorWords))
               => log_level[1] = "Warning"
        /\ (/\ Mentions(log_line, DebugWords)
            /\ ~Mentions(log_line, ErrorWords \cup WarningWords))
               => log_level[1] = "Debug"
        /\ ~Mentions(log_line, ErrorWords \cup WarningWords \cup DebugWords)
               => log_level[1] = "Info"

\* a line with "debug" and, in capitals, "reject" was classified Warning
C23_Witness ==
    /\ log_level = Some("Warning")
    /\ Mentions(log_line, DebugWords)
    /\ contains(log_line, <<"R", "E", "J", "E", "C", "T">>)

\* the lines of the file, in file order, without their terminators
FileLines(bytes) ==
    LET all == reader_lines(bytes) IN [i \in 1..Len(all) |-> all[i].text]

\* C22: tail_lines(path, n) returns the last min(n, number of lines) lines
\* of the file as LogEntry values in file order, and the empty sequence when
\* nothing exists at the path.
C22_TailIsLastLines ==
    tail_out # None =>
        LET out == tail_out[1]
            all == FileLines(tail_path.bytes)
        IN /\ tail_path.kind = "missing" => out.entries = <<>>
           /\ tail_path.kind = "file" =>
                 [i \in 1..Len(out.entries) |-> out.entries[i].message]
                     = Suffix(all, Min(out.n, Len(all)))

\* C24: every service on which a start / stop / restart / enable / disable
\* command is run is on the allow-list, and a name that is not on the list
\* is rejected with no command run.
C24_OnlyAllowListedServices ==
    /\ \A k \in 1..Len(issued) : issued[k].service \in CEYMAIL_SERVICES
    /\ ctl_ret = Some("NotFound") => issued = <<>>

\* C25: while the task of a start_install / resume_install call has not
\* finished, no task of another call is executing install steps.
C25_OneRunAtATime ==
    ~(task.kind # "none" /\ ~task.finished /\ other.state = "running")

\* the status transitions the task's orchestrator has made, in the order it
\* made them (a task runs each step at most once, in pipeline order), as
\* the items that would describe them
RECURSIVE TransitionsFrom(_)
TransitionsFrom(i) ==
    IF i >= NumSteps THEN <<>>
    ELSE (IF steps[i].status = Pending THEN <<>>
          ELSE <<[step_index |-> i, step_name |-> <<steps[i].name>>,
                  status |-> <<"in_progress">>]>>
                \o (IF Terminal(steps[i].status)
                    THEN <<[step_index |-> i, step_name |-> <<steps[i].name>>,
                            status |-> from_step_state(steps[i], i, NumSteps).status]>>
                    ELSE <<>>))
         \o TransitionsFrom(i + 1)

\* what the items of the stream say: which step, and which status
ItemKeys ==
    [n \in 1..Len(Items) |->
        [step_index |-> Items[n].step_index, step_name |-> Items[n].step_name,
         status |-> Items[n].status]]

\* C26: when the task has ended and the caller still holds the stream, the
\* items sent are, in order, one per status transition the orchestrator
\* made, each naming the step and the status it went to, and nothing else.
C26_OneItemPerTransition ==
    (task.kind # "none" /\ task.finished /\ rx_alive) =>
        ItemKeys = TransitionsFrom(0)

C28_InstallStateIsProjection ==
    [][install_state' # install_state =>
          /\ steps' = steps
          /\ Len(install_state'[1]) = NumSteps
          /\ \A k \in 1..NumSteps :
                /\ install_state'[1][k].step_index = k - 1
                /\ install_state'[1][k].total_steps = 12
                /\ Terminal(steps[k - 1].status) =>
                      install_state'[1][k].status
                          = from_step_state(steps[k - 1], k - 1, NumSteps).status]_vars

\* C29: every entry the LogWatcher publishes is eventually in recent_logs
\* of the AggregatedState.
C29_ProducerOutputReachesAggregator ==
    \A k \in 1..MaxFileLen :
        (Len(published) >= k) ~>
            (/\ Len(published) >= k
             /\ \E i \in 1..Len(agg.recent_logs) : agg.recent_logs[i] = published[k])

\* C30: a task that fails while it holds or waits for the write lock does
\* not take the lock with it: the lock is only ever held by a call in
\* progress, every call that was made acquires it and returns (unless its
\* own task fails), and the lock is free again and again, so that get_state
\* is let in.
C30_AvailableAfterFailure ==
    /\ [](lock # "free" => wr[lock].pc \in {"field", "stamp", "send", "return"})
    /\ \A w \in Writers :
          (wr[w].pc \in {"wait", "field", "stamp", "send", "return"})
              ~> (wr[w].pc \in {"idle", "dead"})
    /\ []<>(lock = "free")

\* the task of one caller failed after it had written to the state under
\* the lock, and a call of the other caller holds the lock and is about to
\* return
C30_Witness ==
    /\ wr["w1"].pc = "dead"
    /\ committed # DefaultState(0)
    /\ lock = "w2"
    /\ wr["w2"].pc = "return"

----------------------------------------------------------------------------
(* The install run and its consumer *)

\* C31: a step that has become InProgress reaches Completed or Failed: the
\* status that follows InProgress is Completed or Failed, at every moment
\* there is a later one at which no step is InProgress, and the consumer
\* dropping the stream changes neither the steps nor the position of the
\* spawned task, so that the step that is running then runs to its end.
C31_StepRunsToItsEnd ==
    /\ []<>(\A i \in StepIdx : steps[i].status # InProgress)
    /\ [][/\ \A i \in StepIdx :
              steps[i].status = InProgress =>
                  (steps'[i].status = InProgress \/ Terminal(steps'[i].status))
          /\ (rx_alive /\ ~rx_alive') =>
                (steps' = steps /\ pc' = pc /\ cur' = cur /\ task' = task)]_vars

\* the stream was dropped and the second step of a start_install is running
C31_Witness ==
    /\ ~rx_alive
    /\ task.kind = "start"
    /\ pc = "ra_exec"
    /\ cur = 1
    /\ steps[1].status = InProgress
    /\ steps[0].status = Completed

\* C32: domain_config never fails because the OS hostname could not be set:
\* whether the set-hostname command exits with a non-zero status or cannot
\* be run at all, the step ends Completed; the step has no other source of
\* failure, so it is never Failed.
C32_HostnameFailureNotFatal ==
    \A i \in StepIdx :
        steps[i].name = "domain_config" => steps[i].status.kind # "Failed"

----------------------------------------------------------------------------
(* The shape of the pipeline *)

\* the first call on the orchestrator is a run_all, in progress or returned
FirstRunAll ==
    /\ calls = 1
    /\ (pc \in {"ra_begin", "ra_exec"} \/ RunAllReturned)

\* Completed* (InProgress | Failed)? Pending*, read in pipeline order
PipelineShape ==
    \E k \in 0..NumSteps :
        /\ \A j \in StepIdx : j < k => steps[j].status = Completed
        /\ \A j \in StepIdx : j > k => steps[j].status = Pending
        /\ k < NumSteps =>
              steps[k].status.kind \in {"InProgress", "Failed", "Pending"}

\* C34: during a single run_all on a fresh orchestrator the step statuses
\* read in pipeline order are a block of Completed steps, then at most one
\* InProgress or Failed step, then only Pending steps; and run_all returns
\* Ok exactly when all 12 steps are Completed.
C34_PipelineShape ==
    (calls = 0 \/ FirstRunAll) =>
        /\ PipelineShape
        /\ RunAllReturned =>
              (ret.ok <=> \A i \in StepIdx : steps[i].status = Completed)

\* a first run_all has returned Ok
C34_Witness ==
    /\ FirstRunAll
    /\ RunAllReturned
    /\ ret.ok
    /\ steps[0].status = Completed
    /\ steps[11].status = Completed
    /\ invoked[11] = 1

\* the items the task of start_install has handed to try_send: one for each
\* call of the progress callback, and the final error item
ItemsSent == Len(sink) + (IF pc = "done" /\ ~ret.ok THEN 1 ELSE 0)

\* C35: while the consumer holds the stream, start_install loses no progress
\* item to a full channel: every item sent is in the channel or was read,
\* and their number (at most two per step for 12 steps, and one final error
\* item) stays below the capacity of 64, even if the consumer reads nothing
\* until the run ends.
C35_NoItemLostToFullChannel ==
    (task.kind = "start" /\ rx_alive) =>
        /\ Len(Items) = ItemsSent
        /\ ItemsSent <= 2 * 12 + 1
        /\ Len(chan) < 64

\* a whole run has ended and the consumer has read nothing
C35_Witness ==
    /\ task.kind = "start"
    /\ task.finished
    /\ rx_alive
    /\ stream = <<>>
    /\ Len(chan) = 24

\* the first step of the run: 0 for start_install, start_from for
\* resume_install
FirstOfRun == IF task.kind = "start" THEN 0 ELSE start_from

\* the run has attempted, in order, every step from its first one until the
\* pipeline was complete or a step failed (or, in start_install, the
\* configuration was refused before the first step)
RunWentToItsEnd ==
    \/ /\ task.kind = "start"
       /\ ~ConfigValid(config)
       /\ \A i \in StepIdx : steps[i].status = Pending /\ invoked[i] = 0
    \/ \A i \in StepIdx :
          i >= FirstOfRun => (steps[i].status = Completed /\ invoked[i] = 1)
    \/ \E k \in StepIdx :
          /\ k >= FirstOfRun
          /\ steps[k].status.kind = "Failed"
          /\ \A j \in StepIdx :
                /\ (FirstOfRun <= j /\ j < k) =>
                      (steps[j].status = Completed /\ invoked[j] = 1)
                /\ j > k => (steps[j].status = Pending /\ invoked[j] = 0)

\* C36: dropping the stream returned by start_install or resume_install
\* does not stop the install: the spawned run goes on and ends, and when it
\* has ended it has attempted every remaining step in order until the
\* pipeline was complete or a step failed, as it does with a consumer
\* attached.
C36_DropDoesNotStopInstall ==
    /\ (task.kind # "none" /\ ~rx_alive) ~> (task.finished /\ RunWentToItsEnd)
    /\ [](task.finished => RunWentToItsEnd)

\* a resume from index 2 whose stream was dropped before any item was read
\* has completed the pipeline
C36_Witness ==
    /\ ~rx_alive
    /\ stream = <<>>
    /\ task.kind = "resume"
    /\ task.finished
    /\ start_from = 2
    /\ steps[2].status = Completed
    /\ steps[11].status = Completed

----------------------------------------------------------------------------
(* The order of the state-change broadcasts *)

\* the newest log entry of a state (entries are numbered as they are added)
LastLog(st) ==
    IF st.recent_logs = <<>> THEN 0 ELSE st.recent_logs[Len(st.recent_logs)]

\* state b is not older than state a
NotOlder(a, b) ==
    /\ a.last_updated <= b.last_updated
    /\ LastLog(a) <= LastLog(b)

\* two states hold the same updates; log entries aside
SameUpdates(a, b) ==
    /\ a.latest_stats = b.latest_stats
    /\ a.latest_queue = b.latest_queue
    /\ a.services = b.services

\* C37: with concurrent update_stats / update_queue / update_services
\* callers, a broadcast is sent by the caller that holds the write lock and
\* is the state with every update applied so far, its own last: the state
\* the previous call left behind with the caller's field replaced. It is
\* the newest item of every subscriber, so that no subscriber has an item
\* that is older than the item before it; and when no call is in progress
\* the last broadcast holds the updates that get_state returns, log entries
\* added since aside.
C37_BroadcastsInUpdateOrder ==
    /\ [][\A w \in Writers :
            wr'[w].sends > wr[w].sends =>
                /\ lock = w
                /\ last_sent' = Some(agg)
                /\ SameUpdates(agg, [committed EXCEPT
                       !.latest_stats =
                           IF wr[w].op = "update_stats" THEN wr[w].arg ELSE @,
                       !.latest_queue =
                           IF wr[w].op = "update_queue" THEN wr[w].arg ELSE @,
                       !.services =
                           IF wr[w].op = "update_services" THEN wr[w].arg ELSE @])
                /\ \A r \in DOMAIN change_rx :
                      /\ change_rx'[r] # <<>>
                      /\ change_rx'[r][Len(change_rx'[r])] = agg]_vars
    /\ [](\A r \in DOMAIN change_rx :
            \A k \in 1..(Len(change_rx[r]) - 1) :
                NotOlder(change_rx[r][k], change_rx[r][k + 1]))
    /\ []((InCall = {} /\ last_sent # None) => SameUpdates(last_sent[1], agg))
    /\ [][(got' # got /\ last_sent # None) =>
             SameUpdates(last_sent[1], got'[1])]_vars

\* a subscriber holds two broadcasts, sent before and after the clock moved,
\* and a reader was returned the state of the second
C37_Witness ==
    /\ InCall = {}
    /\ Len(change_rx) = 1
    /\ Len(change_rx[1]) = 2
    /\ change_rx[1][1].last_updated < change_rx[1][2].last_updated
    /\ ~SameUpdates(change_rx[1][1], change_rx[1][2])
    /\ last_sent = Some(change_rx[1][2])
    /\ got = last_sent

\* C38: in every reachable state of an orchestrator, under any sequence of
\* run_all and run_step calls, the progress_percent of a step is 100 if its
\* status is Completed and 0 otherwise (Pending, InProgress and Failed).
C38_ProgressMatchesStatus ==
    \A i \in StepIdx :
        steps[i].progress_percent = IF steps[i].status = Completed THEN 100 ELSE 0

\* a step that an earlier call had Completed was run again and has Failed
C38_Witness ==
    /\ calls = 2
    /\ pc = "idle"
    /\ at_entry.steps[2].status = Completed
    /\ at_entry.steps[2].progress_percent = 100
    /\ steps[2].status.kind = "Failed"
    /\ steps[2].progress_percent = 0
    /\ steps[1].progress_percent = 100

====
